---- MODULE Spec2Model ----
(***************************************************************************)
(* Opponent cache engine of the chess dashboard                            *)
(* (src/src/opponent_cache.py): name normalisation, aggregation of         *)
(* tournament records into per-opponent profiles, the on-disk cache with   *)
(* its staleness check, and the read accessors.                            *)
(*                                                                         *)
(* Strings the code manipulates character by character (names, results,    *)
(* dates) are sequences of one-character strings.  Times are ticks of a    *)
(* discrete clock: datetime.now() and a file's modification time are both  *)
(* readings of it.                                                         *)
(***************************************************************************)
EXTENDS Integers, Sequences, FiniteSets, TLC

\* ------------------------------------------------------------------ bounds
MaxTime == 1
NumSources == 2

\* ------------------------------------------------------- character helpers
LowerCase == <<"a","b","c","d","e","f","g","h","i","j","k","l","m","n","o","p","q","r","s","t","u","v","w","x","y","z">>
UpperCase == <<"A","B","C","D","E","F","G","H","I","J","K","L","M","N","O","P","Q","R","S","T","U","V","W","X","Y","Z">>
\* the characters used, in code-point order
AsciiOrder == <<" ","(",")","*",",","-",".","0","1","2","3","4","5","6","7","8","9",":",";">> \o UpperCase \o LowerCase

IndexIn(c, seq) == IF \E i \in 1..Len(seq) : seq[i] = c
                   THEN CHOOSE i \in 1..Len(seq) : seq[i] = c
                   ELSE 0

Ord(c) == IndexIn(c, AsciiOrder)

UpperChar(c) == IF IndexIn(c, LowerCase) > 0 THEN UpperCase[IndexIn(c, LowerCase)] ELSE c
LowerChar(c) == IF IndexIn(c, UpperCase) > 0 THEN LowerCase[IndexIn(c, UpperCase)] ELSE c

\* str.upper() / str.lower()
Upper(s) == [i \in 1..Len(s) |-> UpperChar(s[i])]
Lower(s) == [i \in 1..Len(s) |-> LowerChar(s[i])]

IsLetter(c) == IndexIn(c, LowerCase) > 0 \/ IndexIn(c, UpperCase) > 0

\* `pat in s`
Contains(s, pat) ==
    \E i \in 1..(Len(s) - Len(pat) + 1) : SubSeq(s, i, i + Len(pat) - 1) = pat

\* Python's string order: a < b  (lexicographic by code point)
StrLess(a, b) ==
    \E i \in 1..(Len(b)) :
        /\ i <= Len(a) + 1
        /\ \A j \in 1..(i - 1) : a[j] = b[j]
        /\ \/ i = Len(a) + 1
           \/ (i <= Len(a) /\ Ord(a[i]) < Ord(b[i]))

\* str.strip(chars): drop leading and trailing characters that are in chars
RECURSIVE LStrip(_, _)
LStrip(s, chars) ==
    IF s # <<>> /\ Head(s) \in chars THEN LStrip(Tail(s), chars) ELSE s

RECURSIVE RStrip(_, _)
RStrip(s, chars) ==
    IF s # <<>> /\ s[Len(s)] \in chars THEN RStrip(SubSeq(s, 1, Len(s) - 1), chars) ELSE s

Strip(s, chars) == RStrip(LStrip(s, chars), chars)

Whitespace == {" "}

\* re.sub(r'\s+', ' ', name): every run of whitespace becomes one space
RECURSIVE CollapseWs(_)
CollapseWs(s) ==
    IF s = <<>> THEN <<>>
    ELSE IF Head(s) \in Whitespace
         THEN <<" ">> \o CollapseWs(LStrip(Tail(s), Whitespace))
         ELSE <<Head(s)>> \o CollapseWs(Tail(s))

\* ------------------------------------------------------ clean_opponent_name
invalid_patterns == <<
    <<"C","l","i","c","k"," ","o","n"," ","a"," ","S","e","c","t","i","o","n"," ","N","a","m","e">>,
    <<"T","h","e"," ","r","a","t","i","n","g","s"," ","s","h","o","w","n"," ","o","n"," ","t","h","i","s"," ","p","a","g","e">>,
    <<"S","e","c","t","i","o","n","(","s",")",",">>,
    <<"P","l","a","y","e","r","s">>,
    <<"n","o","t"," ","o","f","f","i","c","i","a","l"," ","p","u","b","l","i","s","h","e","d"," ","r","a","t","i","n","g","s">>,
    <<"m","a","y"," ","c","h","a","n","g","e"," ","f","r","o","m"," ","t","i","m","e"," ","t","o"," ","t","i","m","e">>,
    <<"U","s","i","n","g"," ","t","h","e","m"," ","f","o","r"," ","p","a","i","r","i","n","g"," ","p","u","r","p","o","s","e","s">>,
    <<"s","h","o","u","l","d"," ","o","n","l","y"," ","b","e"," ","d","o","n","e"," ","i","f"," ","t","h","i","s"," ","h","a","s"," ","b","e","e","n"," ","a","d","v","e","r","t","i","s","e","d">>,
    <<"a","d","v","a","n","c","e"," ","p","u","b","l","i","c","i","t","y"," ","a","n","d"," ","i","s"," ","a","n","n","o","u","n","c","e","d">> >>

MinNameLen == 3
MaxNameLen == 50
Punctuation == {".", ",", ";", ":", "*"}

\* (a variant without the length check)
clean_opponent_name_any_length(name) ==
    IF name = <<>> THEN <<>>
    ELSE IF \E p \in 1..Len(invalid_patterns) :
               Contains(Lower(name), Lower(invalid_patterns[p]))
    THEN <<>>
    ELSE LET n1 == Strip(CollapseWs(name), Whitespace)
         IN  IF ~ \E i \in 1..Len(n1) : IsLetter(n1[i]) THEN <<>>
             ELSE Strip(n1, Punctuation)

clean_opponent_name(name) ==
    IF name = <<>> THEN <<>>
    ELSE IF \E p \in 1..Len(invalid_patterns) :
               Contains(Lower(name), Lower(invalid_patterns[p]))
    THEN <<>>
    ELSE LET n1 == Strip(CollapseWs(name), Whitespace)
         IN  IF Len(n1) < MinNameLen \/ Len(n1) > MaxNameLen THEN <<>>
             ELSE IF ~ \E i \in 1..Len(n1) : IsLetter(n1[i]) THEN <<>>
             ELSE Strip(n1, Punctuation)

\* The raw names of the sample records with str.strip() applied, and what
\* clean_opponent_name makes of each (evaluated once).
SampleNames ==
    {<<"L","e","e",","," ","A">>, <<"L","e","e",","," "," ","A">>,
     <<"P","l","a","y","e","r","s">>, <<"K","i","m"," ","B">>, <<"L","e","e">>}
CleanedSample == [n \in SampleNames |-> clean_opponent_name(n)]
\* (a variant that lets a rejected name through as it is)
CleanNameKeepsRejected(name) ==
    IF name \in SampleNames /\ CleanedSample[name] # <<>> THEN CleanedSample[name] ELSE name

CleanName(name) ==
    IF name \in SampleNames THEN CleanedSample[name] ELSE clean_opponent_name(name)

\* ------------------------------------------------------------ avg_rating
\* sum(ratings) / len(ratings) is kept as the exact quotient, a reduced
\* fraction [num, den]; 0.0 is [num |-> 0, den |-> 1].
RECURSIVE GCD(_, _)
GCD(a, b) == IF b = 0 THEN a ELSE GCD(b, a % b)

Frac(n, d) == LET g == GCD(n, d) IN [num |-> n \div g, den |-> d \div g]
FracLess(x, y) == x.num * y.den < y.num * x.den
FracLeq(x, y) == x.num * y.den <= y.num * x.den
FracOfInt(n) == [num |-> n, den |-> 1]
FracAdd(x, y) == Frac(x.num * y.den + y.num * x.den, x.den * y.den)

RECURSIVE SumSeq(_)
SumSeq(s) == IF s = <<>> THEN 0 ELSE Head(s) + SumSeq(Tail(s))

\* ----------------------------------------------- the opponents_cache dict
\* A Python dict keeps insertion order: a sequence of [key, info] entries
\* with pairwise different keys.
\* An optional value (None or a value) is a sequence of length 0 or 1.
None == <<>>
Some(x) == <<x>>

DictHas(d, k) == \E i \in 1..Len(d) : d[i].key = k
DictIndex(d, k) == CHOOSE i \in 1..Len(d) : d[i].key = k
\* (a variant that reads the first entry whatever the key)
DictGetFirst(d, k) == d[1].info

\* d[k] for a key that is present
DictGet(d, k) == d[DictIndex(d, k)].info
\* d[k] = v
DictSet(d, k, v) ==
    IF DictHas(d, k)
    THEN [d EXCEPT ![DictIndex(d, k)] = [key |-> k, info |-> v]]
    ELSE Append(d, [key |-> k, info |-> v])

OpponentInfoFields ==
    {"name", "ratings_faced", "results_against", "tournaments_met", "rounds_played",
     "last_faced", "total_games", "wins_against", "losses_against", "draws_against",
     "avg_rating"}

NewOpponentInfo(name) ==
    [name |-> name, ratings_faced |-> <<>>, results_against |-> <<>>,
     tournaments_met |-> <<>>, rounds_played |-> <<>>, last_faced |-> <<>>,
     total_games |-> 0, wins_against |-> 0, losses_against |-> 0,
     draws_against |-> 0, avg_rating |-> FracOfInt(0)]

\* --------------------------------------- extract_opponents_from_tournaments
\* A tournament record is [name, date, opponents]; opponents is
\* ListOf(items) for a list of encounters [name, rating, result, round],
\* NoKey when the record has no `opponents` key, NonList when the key holds
\* a JSON null.
ListOf(items) == [kind |-> "list", items |-> items]
NoKey == [kind |-> "nokey", items |-> <<>>]
NonList == [kind |-> "null", items |-> <<>>]

W == <<"W">>
L == <<"L">>
D == <<"D">>

\* (a variant that keeps the date of the encounter ingested last)
LaterDateLastWins(stored, tournament_date) == tournament_date

\* if tournament_date > opponent_info.last_faced: last_faced = tournament_date
LaterDate(stored, tournament_date) ==
    IF StrLess(stored, tournament_date) THEN tournament_date ELSE stored

\* (a variant that counts every result in every bucket)
CountedAlways(n, result, code) == n + 1

\* if result == code: counter += 1
Counted(n, result, code) == IF result = code THEN n + 1 ELSE n

\* sum(ratings_faced) / len(ratings_faced)
Mean(ratings) == Frac(SumSeq(ratings), Len(ratings))

\* the body of the inner loop for one opponent_data
AddEncounter(cache, tournament_name, tournament_date, opponent_data) ==
    LET raw_name == Strip(opponent_data.name, Whitespace)
        name == CleanName(raw_name)
    IN  IF raw_name = <<>> THEN cache
        ELSE IF name = <<>> THEN cache
        ELSE LET result == Upper(opponent_data.result)
                 old == IF DictHas(cache, name) THEN DictGet(cache, name)
                        ELSE NewOpponentInfo(name)
                 ratings == Append(old.ratings_faced, opponent_data.rating)
                 new == [old EXCEPT
                            !.ratings_faced = ratings,
                            !.results_against = Append(@, result),
                            !.tournaments_met = Append(@, tournament_name),
                            !.rounds_played = Append(@, opponent_data.round),
                            !.last_faced = LaterDate(@, tournament_date),
                            !.total_games = @ + 1,
                            !.wins_against = Counted(@, result, W),
                            !.losses_against = Counted(@, result, L),
                            !.draws_against = Counted(@, result, D),
                            !.avg_rating = Mean(ratings)]
             IN  DictSet(cache, name, new)

RECURSIVE AddEncounters(_, _, _, _)
AddEncounters(cache, tournament_name, tournament_date, opps) ==
    IF opps = <<>> THEN cache
    ELSE AddEncounters(AddEncounter(cache, tournament_name, tournament_date, Head(opps)),
                       tournament_name, tournament_date, Tail(opps))

\* tournament.get('opponents', [])
OpponentsOf(tournament) ==
    IF tournament.opponents = NoKey THEN ListOf(<<>>) ELSE tournament.opponents

\* Folds the tournaments into cache.  Iterating a null `opponents` value
\* raises TypeError: the result says so and carries the entries made so far.
RECURSIVE extract_opponents_from_tournaments(_, _)
extract_opponents_from_tournaments(cache, tournaments) ==
    IF tournaments = <<>> THEN [cache |-> cache, raised |-> FALSE]
    ELSE LET t == Head(tournaments)
         IN  IF OpponentsOf(t) = NonList
             THEN [cache |-> cache, raised |-> TRUE]
             ELSE extract_opponents_from_tournaments(
                      AddEncounters(cache, t.name, t.date, OpponentsOf(t).items),
                      Tail(tournaments))

\* ------------------------------------- comprehensive_opponent_cache.py
\* Its clean_opponent_name has the same steps with a maximum of 60.
ComprehensiveMaxNameLen == 60

comprehensive_clean_opponent_name(name) ==
    IF name = <<>> THEN <<>>
    ELSE IF \E p \in 1..Len(invalid_patterns) :
               Contains(Lower(name), Lower(invalid_patterns[p]))
    THEN <<>>
    ELSE LET n1 == Strip(CollapseWs(name), Whitespace)
         IN  IF Len(n1) < MinNameLen \/ Len(n1) > ComprehensiveMaxNameLen THEN <<>>
             ELSE IF ~ \E i \in 1..Len(n1) : IsLetter(n1[i]) THEN <<>>
             ELSE Strip(n1, Punctuation)

ComprehensiveCleanedSample == [n \in SampleNames |-> comprehensive_clean_opponent_name(n)]
ComprehensiveCleanName(name) ==
    IF name \in SampleNames THEN ComprehensiveCleanedSample[name]
    ELSE comprehensive_clean_opponent_name(name)

\* ------------------------------------------- regular_rating_cache.py
\* Its clean_opponent_name knows the first five patterns, tests the minimum
\* length on its argument and the maximum after collapsing whitespace.
regular_invalid_patterns == SubSeq(invalid_patterns, 1, 5)
RegularMaxNameLen == 60

regular_clean_opponent_name(name) ==
    IF name = <<>> \/ Len(name) < MinNameLen THEN <<>>
    ELSE IF \E p \in 1..Len(regular_invalid_patterns) :
               Contains(Lower(name), Lower(regular_invalid_patterns[p]))
    THEN <<>>
    ELSE LET n1 == Strip(CollapseWs(name), Whitespace)
         IN  IF Len(n1) > RegularMaxNameLen \/ ~ \E i \in 1..Len(n1) : IsLetter(n1[i])
             THEN <<>>
             ELSE Strip(n1, Punctuation)

titles == <<
    <<"G","M">>, <<"I","M">>, <<"F","M">>, <<"W","G","M">>, <<"W","I","M">>,
    <<"W","F","M">>, <<"E","X","P","E","R","T">>, <<"M","A","S","T","E","R">>,
    <<"C","L","A","S","S"," ","A">> >>

\* name.upper().startswith(prefix)
StartsWithUpper(name, prefix) ==
    Len(name) >= Len(prefix) /\ SubSeq(Upper(name), 1, Len(prefix)) = prefix

\* Returns [name, title]; title is None or Some(title).
RECURSIVE ExtractTitleFrom(_, _)
ExtractTitleFrom(i, name) ==
    IF i > Len(titles) THEN [name |-> name, title |-> None]
    ELSE IF StartsWithUpper(name, titles[i] \o <<" ">>)
    THEN [name |-> Strip(SubSeq(name, Len(titles[i]) + 1, Len(name)), Whitespace),
          title |-> Some(titles[i])]
    ELSE ExtractTitleFrom(i + 1, name)

extract_title_from_name(name) == ExtractTitleFrom(1, name)

NewDetailedOpponentProfile(name, title) ==
    [name |-> name, title |-> title, ratings_faced |-> <<>>,
     avg_rating |-> FracOfInt(0), highest_rating |-> 0, lowest_rating |-> 9999,
     total_encounters |-> 0, wins_against_kiren |-> 0, losses_against_kiren |-> 0,
     draws_against_kiren |-> 0, kiren_win_rate |-> FracOfInt(0),
     tournaments_met |-> <<>>, dates_faced |-> <<>>, rounds_played |-> <<>>,
     results_history |-> <<>>, kiren_rating_when_faced |-> <<>>,
     upset_victories |-> 0, expected_losses |-> 0,
     first_encounter |-> <<>>, last_encounter |-> <<>>]

\* tournament.get('rating_before', 0)
RatingBefore(tournament) ==
    IF tournament.rating_before = None THEN 0 ELSE tournament.rating_before[1]

\* (a variant that takes the title of the encounter ingested last)
BetterTitleLastWins(stored, title) == IF title # None THEN title ELSE stored

\* if title and (not profile.title or len(title) > len(profile.title or '')):
\*     profile.title = title
BetterTitle(stored, title) ==
    IF title # None /\ (stored = None \/ Len(title[1]) > Len(stored[1]))
    THEN title ELSE stored

\* if not profile.first_encounter or tournament_date < profile.first_encounter:
\*     profile.first_encounter = tournament_date
FirstDate(stored, tournament_date) ==
    IF stored = <<>> \/ StrLess(tournament_date, stored) THEN tournament_date ELSE stored

\* if not profile.last_encounter or tournament_date > profile.last_encounter:
\*     profile.last_encounter = tournament_date
LastDate(stored, tournament_date) ==
    IF stored = <<>> \/ StrLess(stored, tournament_date) THEN tournament_date ELSE stored

\* the body of the first loop for one opponent_data
ComprehensiveAddEncounter(profiles, tournament_name, tournament_date, kiren_rating_before, opponent_data) ==
    LET raw_name == Strip(opponent_data.name, Whitespace)
        clean_name == ComprehensiveCleanName(raw_name)
    IN  IF raw_name = <<>> THEN profiles
        ELSE IF clean_name = <<>> THEN profiles
        ELSE LET ex == extract_title_from_name(clean_name)
                 result == Upper(opponent_data.result)
                 old == IF DictHas(profiles, ex.name) THEN DictGet(profiles, ex.name)
                        ELSE NewDetailedOpponentProfile(ex.name, ex.title)
                 new == [old EXCEPT
                     !.ratings_faced = Append(@, opponent_data.rating),
                     !.tournaments_met = Append(@, tournament_name),
                     !.dates_faced = Append(@, tournament_date),
                     !.rounds_played = Append(@, opponent_data.round),
                     !.results_history = Append(@, result),
                     !.kiren_rating_when_faced = Append(@, kiren_rating_before),
                     !.total_encounters = @ + 1,
                     !.losses_against_kiren = Counted(@, result, W),
                     !.wins_against_kiren = Counted(@, result, L),
                     !.draws_against_kiren = Counted(@, result, D),
                     !.first_encounter = FirstDate(@, tournament_date),
                     !.last_encounter = LastDate(@, tournament_date),
                     !.title = BetterTitle(@, ex.title)]
             IN  DictSet(profiles, ex.name, new)

RECURSIVE MaxOf(_)
MaxOf(xs) ==
    IF Len(xs) = 1 THEN xs[1]
    ELSE LET m == MaxOf(Tail(xs)) IN IF Head(xs) > m THEN Head(xs) ELSE m

RECURSIVE MinOf(_)
MinOf(xs) ==
    IF Len(xs) = 1 THEN xs[1]
    ELSE LET m == MinOf(Tail(xs)) IN IF Head(xs) < m THEN Head(xs) ELSE m

\* the second loop ("Calculate derived statistics") for one profile
DerivedStatistics(profile) ==
    LET n == Len(profile.results_history)
        both(i) == i <= Len(profile.kiren_rating_when_faced) /\ i <= Len(profile.ratings_faced)
    IN  [profile EXCEPT
            !.avg_rating = IF profile.ratings_faced # <<>>
                           THEN Mean(profile.ratings_faced) ELSE @,
            !.highest_rating = IF profile.ratings_faced # <<>>
                               THEN MaxOf(profile.ratings_faced) ELSE @,
            !.lowest_rating = IF profile.ratings_faced # <<>>
                              THEN MinOf(profile.ratings_faced) ELSE @,
            !.kiren_win_rate = IF profile.total_encounters > 0
                               THEN Frac(profile.losses_against_kiren * 100,
                                         profile.total_encounters)
                               ELSE @,
            !.upset_victories = @ + Cardinality({i \in 1..n :
                /\ both(i)
                /\ profile.results_history[i] = W
                /\ profile.kiren_rating_when_faced[i] < profile.ratings_faced[i]}),
            !.expected_losses = @ + Cardinality({i \in 1..n :
                /\ both(i)
                /\ profile.results_history[i] = L
                /\ profile.kiren_rating_when_faced[i] > profile.ratings_faced[i]})]

DeriveAll(profiles) ==
    [i \in 1..Len(profiles) |->
        [key |-> profiles[i].key, info |-> DerivedStatistics(profiles[i].info)]]

\* ------------------------------------------- regular_rating_cache.py
\* Its extract_title_from_name knows the first eight titles.
regular_titles == SubSeq(titles, 1, 8)

RECURSIVE RegularExtractTitleFrom(_, _)
RegularExtractTitleFrom(i, name) ==
    IF i > Len(regular_titles) THEN [name |-> name, title |-> None]
    ELSE IF StartsWithUpper(name, regular_titles[i] \o <<" ">>)
    THEN [name |-> Strip(SubSeq(name, Len(regular_titles[i]) + 1, Len(name)), Whitespace),
          title |-> Some(regular_titles[i])]
    ELSE RegularExtractTitleFrom(i + 1, name)

regular_extract_title_from_name(name) == RegularExtractTitleFrom(1, name)

NewRegularRatedOpponent(name, title) ==
    [name |-> name, title |-> title, regular_ratings |-> <<>>,
     avg_regular_rating |-> FracOfInt(0), highest_regular_rating |-> 0,
     lowest_regular_rating |-> 9999, total_regular_games |-> 0,
     kiren_wins |-> 0, kiren_losses |-> 0, kiren_draws |-> 0,
     kiren_win_rate |-> FracOfInt(0), regular_tournaments |-> <<>>,
     regular_dates |-> <<>>, regular_results |-> <<>>,
     upset_wins |-> 0, expected_draws |-> 0,
     first_regular_game |-> <<>>, last_regular_game |-> <<>>]

\* the body of the first loop of create_regular_rating_profiles for one
\* opponent_data; an encounter with rating 0 is skipped
RegularAddEncounter(profiles, tournament_name, tournament_date, opponent_data) ==
    LET raw_name == Strip(opponent_data.name, Whitespace)
        clean_name == regular_clean_opponent_name(raw_name)
    IN  IF raw_name = <<>> THEN profiles
        ELSE IF clean_name = <<>> THEN profiles
        ELSE LET ex == regular_extract_title_from_name(clean_name)
                 result == Upper(opponent_data.result)
                 old == IF DictHas(profiles, ex.name) THEN DictGet(profiles, ex.name)
                        ELSE NewRegularRatedOpponent(ex.name, ex.title)
                 new == [old EXCEPT
                     !.regular_ratings = Append(@, opponent_data.rating),
                     !.regular_tournaments = Append(@, tournament_name),
                     !.regular_dates = Append(@, tournament_date),
                     !.regular_results = Append(@, result),
                     !.total_regular_games = @ + 1,
                     !.kiren_wins = Counted(@, result, W),
                     !.kiren_losses = Counted(@, result, L),
                     !.kiren_draws = Counted(@, result, D),
                     !.first_regular_game = FirstDate(@, tournament_date),
                     !.last_regular_game = LastDate(@, tournament_date),
                     !.title = BetterTitle(@, ex.title)]
             IN  IF opponent_data.rating = 0 THEN profiles
                 ELSE DictSet(profiles, ex.name, new)

\* kiren_estimated_regular = 2200
kiren_estimated_regular == 2200

\* the body of its second loop for one profile
RegularDerivedStatistics(profile) ==
    LET n == Len(profile.regular_results)
        near(r) == kiren_estimated_regular - r <= 100 /\ r - kiren_estimated_regular <= 100
    IN  [profile EXCEPT
            !.avg_regular_rating = IF profile.regular_ratings # <<>>
                                   THEN Mean(profile.regular_ratings) ELSE @,
            !.highest_regular_rating = IF profile.regular_ratings # <<>>
                                       THEN MaxOf(profile.regular_ratings) ELSE @,
            !.lowest_regular_rating = IF profile.regular_ratings # <<>>
                                      THEN MinOf(profile.regular_ratings) ELSE @,
            !.kiren_win_rate = IF profile.total_regular_games > 0
                               THEN Frac(profile.kiren_wins * 100, profile.total_regular_games)
                               ELSE @,
            !.upset_wins = @ + Cardinality({i \in 1..n :
                /\ i <= Len(profile.regular_ratings)
                /\ profile.regular_results[i] = W
                /\ kiren_estimated_regular < profile.regular_ratings[i]}),
            !.expected_draws = @ + Cardinality({i \in 1..n :
                /\ i <= Len(profile.regular_ratings)
                /\ ~ (profile.regular_results[i] = W
                      /\ kiren_estimated_regular < profile.regular_ratings[i])
                /\ profile.regular_results[i] = D
                /\ near(profile.regular_ratings[i])})]

RegularDeriveAll(profiles) ==
    [i \in 1..Len(profiles) |->
        [key |-> profiles[i].key, info |-> RegularDerivedStatistics(profiles[i].info)]]

\* ------------------------------------------------------------- the files
\* source_files: the ordered list of declared source paths.  One more file
\* in the same directory is not declared.
source_files == [i \in 1..NumSources |-> i]
Undeclared == NumSources + 1
Files == 1..(NumSources + 1)
Declared == {source_files[i] : i \in 1..Len(source_files)}

\* what json.load makes of a source file
Unparseable == [kind |-> "unparseable", recs |-> <<>>]
NotList == [kind |-> "notlist", recs |-> <<>>]
JList(recs) == [kind |-> "list", recs |-> recs]

NoFile == [exists |-> FALSE, mtime |-> 0, content |-> "garbage"]

Date1 == <<"2","0","2","4","-","0","1","-","0","1">>
Date2 == <<"2","0","2","4","-","0","6","-","0","1">>

TournA ==
    [name |-> "A", date |-> Date1,
     opponents |-> ListOf(<<
        [name |-> <<"L","e","e",","," ","A">>, rating |-> 2000, result |-> <<"W">>, round |-> 1],
        [name |-> <<"P","l","a","y","e","r","s">>, rating |-> 1500, result |-> <<"L">>, round |-> 2] >>)]
TournB ==
    [name |-> "B", date |-> Date2,
     opponents |-> ListOf(<<
        [name |-> <<" ","L","e","e",","," "," ","A">>, rating |-> 2101, result |-> <<"l">>, round |-> 1],
        [name |-> <<"K","i","m"," ","B">>, rating |-> 1500, result |-> <<"d">>, round |-> 2] >>)]
TournC == [name |-> "C", date |-> Date2, opponents |-> NoKey]
TournBad == [name |-> "Bad", date |-> Date2, opponents |-> NonList]

\* A file's content is the text of one of five sample documents; json_load
\* is what json.load(f) makes of it.
json_load(text) ==
    CASE text = "garbage"   -> Unparseable
      [] text = "{}"        -> NotList
      [] text = "[A]"       -> JList(<<TournA>>)
      [] text = "[C,B]"     -> JList(<<TournC, TournB>>)
      [] text = "[A,Bad,B]" -> JList(<<TournA, TournBad, TournB>>)

\* What another program may write to declared source f: a file bad as a
\* whole, or a list of records that follow the schema.
ContentsFor(f) ==
    IF f = 1 THEN {"garbage", "[A]"}
    ELSE IF f = 2 THEN {"{}", "[C,B]"}
    ELSE {"[A]"}
\* the undeclared file
OtherFile == [exists |-> TRUE, mtime |-> 0, content |-> "[A]"]
\* a source whose second record has a null `opponents`
MalformedContents == {"[A,Bad,B]"}

\* ---------------------------------------------------------- the cache file
CacheAbsent == [kind |-> "absent", last_updated |-> None, opponents |-> <<>>]
CacheCorrupt == [kind |-> "corrupt", last_updated |-> None, opponents |-> <<>>]

\* (a variant that stores avg_rating as a whole number)
asdict_whole(info) == [info EXCEPT !.avg_rating = [num |-> @.num \div @.den, den |-> 1]]

\* dataclasses.asdict(info)
asdict(info) == info

\* outcomes of writing the cache file: written; makedirs or open raised
\* (nothing touched); open truncated the file and the dump raised
WriteOutcomes == {"ok", "denied", "midwrite"}

VARIABLES
    now,              \* the clock
    fs,               \* Files -> [exists, mtime, content]
    cache_file,       \* the file at self.cache_file
    opponents_cache,  \* self.opponents_cache
    last_updated,     \* self.last_updated
    lastOp,           \* the kind of operation that made the last step:
                      \* "init", "env", "construct", "refresh", "read"
    ret,              \* what it returned: "True", "False", "None", "raised"
    nrebuilds,        \* how many times the last operation ran refresh_cache
    wrote,            \* outcome of the last operation's cache-file write
    again,            \* the last two steps were both rebuilds that returned True
    scn,              \* where the run is in the build / touch / read scenario
    hidden,           \* a source change since the last saved rebuild that
                      \* the staleness check cannot see
    \* a run of an aggregator over a list of tournament records, one
    \* encounter at a time, and the queries on its result
    builder,          \* "none", "manager" (extract_opponents_from_tournaments)
                      \* or "comprehensive" (create_comprehensive_opponent_profiles)
    input,            \* its argument `tournaments`: a sequence of records
    pc,               \* [phase, rec, opp]: the loop position
    opponent_profiles,\* the comprehensive builder's local dict
    answer,           \* the last query and what it returned
    \* a call of a name normaliser
    raw,              \* the argument
    cleaned           \* [by, out]: which normaliser ran and what it returned

cacheVars == <<now, fs, cache_file, opponents_cache, last_updated, lastOp, ret,
               nrebuilds, wrote, again, scn, hidden>>
aggVars == <<builder, input, pc, opponent_profiles, answer>>
nameVars == <<raw, cleaned>>
vars == <<cacheVars, aggVars, nameVars>>

\* ------------------------------------------------------------ needs_refresh
\* (variants: one that looks at every file of the directory, one that
\* returns after the first declared source, one that also counts a source
\* exactly as old as the cache)
RECURSIVE AnyNewerAllFiles(_, _, _)
AnyNewerAllFiles(i, cache_time, files) ==
    IF i > NumSources + 1 THEN FALSE
    ELSE IF files[i].exists /\ files[i].mtime > cache_time
    THEN TRUE
    ELSE AnyNewerAllFiles(i + 1, cache_time, files)

AnyNewerFirstOnly(i, cache_time, files) ==
    /\ i <= Len(source_files)
    /\ files[source_files[i]].exists
    /\ files[source_files[i]].mtime > cache_time

RECURSIVE AnyNewerOrEqual(_, _, _)
AnyNewerOrEqual(i, cache_time, files) ==
    IF i > Len(source_files) THEN FALSE
    ELSE IF files[source_files[i]].exists /\ files[source_files[i]].mtime >= cache_time
    THEN TRUE
    ELSE AnyNewerOrEqual(i + 1, cache_time, files)

\* the loop over self.source_files
RECURSIVE AnyNewer(_, _, _)
AnyNewer(i, cache_time, files) ==
    IF i > Len(source_files) THEN FALSE
    ELSE IF files[source_files[i]].exists /\ files[source_files[i]].mtime > cache_time
    THEN TRUE
    ELSE AnyNewer(i + 1, cache_time, files)

\* (a variant that asks for a rebuild on every call)
needs_refresh_every_time(lu, files) == TRUE

\* needs_refresh: no timestamp, or a declared source newer than it
needs_refresh(lu, files) ==
    IF lu = None THEN TRUE ELSE AnyNewer(1, lu[1], files)

\* --------------------------------------------------------------- save_cache
SaveEntries(cache) ==
    [i \in 1..Len(cache) |-> [key |-> cache[i].key, data |-> asdict(cache[i].info)]]

\* (a variant that writes the file but does not set self.last_updated)
save_cache_no_stamp(cache, lu, file, t, w) ==
    CASE w = "ok" ->
            [file |-> [kind |-> "json", last_updated |-> Some(t), opponents |-> SaveEntries(cache)],
             last_updated |-> lu, ret |-> "True"]
      [] w = "denied" ->
            [file |-> file, last_updated |-> lu, ret |-> "False"]
      [] w = "midwrite" ->
            [file |-> CacheCorrupt, last_updated |-> lu, ret |-> "False"]

\* returns the file, self.last_updated and the return value
save_cache(cache, lu, file, t, w) ==
    CASE w = "ok" ->
            [file |-> [kind |-> "json", last_updated |-> Some(t), opponents |-> SaveEntries(cache)],
             last_updated |-> Some(t), ret |-> "True"]
      [] w = "denied" ->
            [file |-> file, last_updated |-> lu, ret |-> "False"]
      [] w = "midwrite" ->
            [file |-> CacheCorrupt, last_updated |-> lu, ret |-> "False"]

\* --------------------------------------------------------------- load_cache
\* OpponentInfo(**data) raises TypeError unless data has exactly the fields
LoadsAsInfo(data) == DOMAIN data = OpponentInfoFields

RECURSIVE LoadEntries(_, _)
LoadEntries(cache, entries) ==
    IF entries = <<>> THEN [cache |-> cache, ok |-> TRUE]
    ELSE IF ~ LoadsAsInfo(Head(entries).data) THEN [cache |-> cache, ok |-> FALSE]
    ELSE LoadEntries(DictSet(cache, Head(entries).key, Head(entries).data), Tail(entries))

load_cache(cache, lu, file) ==
    IF file.kind = "json"
    THEN LET ld == LoadEntries(cache, file.opponents)
         IN  [cache |-> ld.cache, last_updated |-> file.last_updated,
              ret |-> IF ld.ok THEN "True" ELSE "False"]
    ELSE [cache |-> cache, last_updated |-> lu, ret |-> "False"]

\* ------------------------------------------------------------ refresh_cache
\* one declared source: its records, or nothing when it is missing, does
\* not parse, or is not a list
LoadSource(files, f) ==
    IF files[f].exists /\ json_load(files[f].content).kind = "list"
    THEN json_load(files[f].content).recs
    ELSE <<>>

\* (a variant that gives up at the first source that is not a usable list)
RECURSIVE LoadAllFromAbort(_, _, _)
LoadAllFromAbort(i, acc, files) ==
    IF i > Len(source_files) THEN acc
    ELSE IF LoadSource(files, source_files[i]) = <<>> THEN acc
    ELSE LoadAllFromAbort(i + 1, acc \o LoadSource(files, source_files[i]), files)

RECURSIVE LoadAllFrom(_, _, _)
LoadAllFrom(i, acc, files) ==
    IF i > Len(source_files) THEN acc
    ELSE LoadAllFrom(i + 1, acc \o LoadSource(files, source_files[i]), files)

\* The record lists the sample documents can add up to, and what
\* extract_opponents_from_tournaments makes of each from an empty dict
\* (evaluated once).
SourceTexts == {"garbage", "{}", "[A]", "[C,B]", "[A,Bad,B]"}
SampleFiles ==
    [Declared -> {NoFile} \cup {[exists |-> TRUE, mtime |-> 0, content |-> c] : c \in SourceTexts}]
SampleTournaments == {LoadAllFrom(1, <<>>, files) : files \in SampleFiles}
ExtractedSample ==
    [ts \in SampleTournaments |-> extract_opponents_from_tournaments(<<>>, ts)]
Extract(cache, tournaments) ==
    IF cache = <<>> /\ tournaments \in SampleTournaments
    THEN ExtractedSample[tournaments]
    ELSE extract_opponents_from_tournaments(cache, tournaments)

\* (a variant that keeps the entries)
NotCleared(cache) == cache

\* self.opponents_cache.clear()
Cleared(cache) == <<>>

\* returns the new in-memory cache, last_updated, the cache file, the
\* return value and the outcome of the write (w is what the file system
\* does if the write is attempted)
refresh_cache(cache, lu, file, files, t, w) ==
    LET all_tournaments == LoadAllFrom(1, <<>>, files)
        ex == Extract(Cleared(cache), all_tournaments)
        sv == save_cache(ex.cache, lu, file, t, w)
    IN  IF all_tournaments = <<>>
        THEN [cache |-> Cleared(cache), last_updated |-> lu, file |-> file,
              ret |-> "False", wrote |-> "none"]
        ELSE IF ex.raised
        THEN [cache |-> ex.cache, last_updated |-> lu, file |-> file,
              ret |-> "raised", wrote |-> "none"]
        ELSE [cache |-> ex.cache, last_updated |-> sv.last_updated, file |-> sv.file,
              ret |-> sv.ret, wrote |-> w]

\* ------------------------------------------------------- the read results
Infos(cache) == [i \in 1..Len(cache) |-> cache[i].info]

\* (a variant that puts a profile before the earlier ones it ties with)
RECURSIVE InsertDescTiesFirst(_, _)
InsertDescTiesFirst(sorted, x) ==
    IF sorted = <<>> THEN <<x>>
    ELSE IF FracLeq(Head(sorted).avg_rating, x.avg_rating)
         THEN <<x>> \o sorted
         ELSE <<Head(sorted)>> \o InsertDescTiesFirst(Tail(sorted), x)

\* sorted(xs, key=avg_rating, reverse=True): stable, descending
RECURSIVE InsertDesc(_, _)
InsertDesc(sorted, x) ==
    IF sorted = <<>> THEN <<x>>
    ELSE IF FracLess(Head(sorted).avg_rating, x.avg_rating)
         THEN <<x>> \o sorted
         ELSE <<Head(sorted)>> \o InsertDesc(Tail(sorted), x)

RECURSIVE SortDesc(_, _)
SortDesc(done, xs) ==
    IF xs = <<>> THEN done ELSE SortDesc(InsertDesc(done, Head(xs)), Tail(xs))

FirstN(xs, n) == SubSeq(xs, 1, IF n < Len(xs) THEN n ELSE Len(xs))

get_all_opponents_result(cache) == cache

get_opponent_result(cache, name) ==
    IF DictHas(cache, name) THEN Some(DictGet(cache, name)) ELSE None

get_opponents_by_rating_range_result(cache, min_rating, max_rating) ==
    SelectSeq(cache, LAMBDA e : /\ FracLeq(FracOfInt(min_rating), e.info.avg_rating)
                                /\ FracLeq(e.info.avg_rating, FracOfInt(max_rating)))

get_frequent_opponents_result(cache, min_games) ==
    SelectSeq(cache, LAMBDA e : e.info.total_games >= min_games)

get_top_opponents_by_rating_result(cache, limit) ==
    FirstN(SortDesc(<<>>, Infos(cache)), limit)

search_opponents_result(cache, search_term) ==
    SortDesc(<<>>, SelectSeq(Infos(cache),
                             LAMBDA info : Contains(Upper(info.name), Upper(search_term))))

RECURSIVE SumField(_, _)
SumField(infos, field) ==
    IF infos = <<>> THEN 0 ELSE Head(infos)[field] + SumField(Tail(infos), field)

RECURSIVE SumAvg(_)
SumAvg(infos) ==
    IF infos = <<>> THEN FracOfInt(0) ELSE FracAdd(Head(infos).avg_rating, SumAvg(Tail(infos)))

\* (a variant whose bands include their upper bound)
CountInClosed(infos, lo, hi) ==
    Cardinality({i \in 1..Len(infos) :
                    /\ FracLeq(FracOfInt(lo), infos[i].avg_rating)
                    /\ FracLeq(infos[i].avg_rating, FracOfInt(hi))})

CountIn(infos, lo, hi) ==
    Cardinality({i \in 1..Len(infos) :
                    /\ FracLeq(FracOfInt(lo), infos[i].avg_rating)
                    /\ FracLess(infos[i].avg_rating, FracOfInt(hi))})

\* {} for an empty cache, else the statistics record
get_statistics_result(cache, lu) ==
    IF cache = <<>> THEN None
    ELSE LET infos == Infos(cache)
             total_opponents == Len(infos)
             total_games == SumField(infos, "total_games")
             total_wins == SumField(infos, "wins_against")
             s == SumAvg(infos)
         IN  Some([total_opponents |-> total_opponents,
                   total_games |-> total_games,
                   total_wins |-> total_wins,
                   total_losses |-> SumField(infos, "losses_against"),
                   total_draws |-> SumField(infos, "draws_against"),
                   win_percentage |-> IF total_games > 0
                                      THEN Frac(total_wins * 100, total_games)
                                      ELSE FracOfInt(0),
                   avg_opponent_rating |-> Frac(s.num, s.den * total_opponents),
                   rating_distribution |->
                       [b2400 |-> Cardinality({i \in 1..Len(infos) :
                                     FracLeq(FracOfInt(2400), infos[i].avg_rating)}),
                        b2200 |-> CountIn(infos, 2200, 2400),
                        b2000 |-> CountIn(infos, 2000, 2200),
                        b1800 |-> CountIn(infos, 1800, 2000),
                        below1800 |-> Cardinality({i \in 1..Len(infos) :
                                         FracLess(infos[i].avg_rating, FracOfInt(1800))})],
                   last_updated |-> lu])

\* ------------------------------------------ regular_rating_lookup.py
\* What load_regular_rating_cache returns: {} when the file cannot be read,
\* else the document, which may or may not have an `opponents` mapping.
NoCacheData == [loaded |-> FALSE, has_opponents |-> FALSE, opponents |-> <<>>]
CacheDataWithout == [loaded |-> TRUE, has_opponents |-> FALSE, opponents |-> <<>>]
CacheDataOf(profiles) == [loaded |-> TRUE, has_opponents |-> TRUE, opponents |-> profiles]

RECURSIVE SumFrac(_, _)
SumFrac(infos, field) ==
    IF infos = <<>> THEN FracOfInt(0)
    ELSE FracAdd(Head(infos)[field], SumFrac(Tail(infos), field))

\* x / y, which raises ZeroDivisionError when y is 0
Raised(what) == [raised |-> what, value |-> FracOfInt(0)]
Returned(v) == [raised |-> "no", value |-> v]
TrueDiv(x, y) ==
    IF y = 0 THEN Raised("ZeroDivisionError")
    ELSE Returned(Frac(x.num, x.den * y))

\* the `stats` command of main: "no cache" when nothing was loaded, "no
\* opponents" when the key is missing, else the figures it prints; a
\* division that raises ends the command with that exception
regular_stats(cache_data) ==
    IF ~ cache_data.loaded THEN [out |-> "no cache", raised |-> "no"]
    ELSE IF ~ cache_data.has_opponents THEN [out |-> "no opponents", raised |-> "no"]
    ELSE LET opponents == Infos(cache_data.opponents)
             total_opponents == Len(opponents)
             total_games == SumField(opponents, "total_regular_games")
             total_wins == SumField(opponents, "kiren_wins")
             avg_rating == TrueDiv(SumFrac(opponents, "avg_regular_rating"), total_opponents)
             win_rate == IF total_games > 0 THEN Frac(total_wins * 100, total_games)
                         ELSE FracOfInt(0)
         IN  IF avg_rating.raised # "no"
             THEN [out |-> "raised", raised |-> avg_rating.raised]
             ELSE [out |-> "stats", raised |-> "no",
                   total_opponents |-> total_opponents, total_games |-> total_games,
                   total_wins |-> total_wins,
                   total_losses |-> SumField(opponents, "kiren_losses"),
                   total_draws |-> SumField(opponents, "kiren_draws"),
                   avg_rating |-> avg_rating.value, win_rate |-> win_rate]

\* ------------------------------------------------------------------- Init
\* A new instance in a data directory that holds no declared source yet.
CacheInit ==
    /\ now = 0
    /\ fs = [f \in Files |-> IF f \in Declared THEN NoFile ELSE OtherFile]
    /\ cache_file = CacheAbsent
    /\ opponents_cache = <<>>
    /\ last_updated = None
    /\ lastOp = "init"
    /\ ret = "False"
    /\ nrebuilds = 0
    /\ wrote = "none"
    /\ again = FALSE
    /\ scn = "none"
    /\ hidden = FALSE

\* no aggregator run and no normaliser call is under way
Idle == [phase |-> "idle", rec |-> 0, opp |-> 0]
NoAnswer == [op |-> "none", arg |-> <<>>, result |-> <<>>]
AggIdle ==
    /\ builder = "none"
    /\ input = <<>>
    /\ pc = Idle
    /\ opponent_profiles = <<>>
    /\ answer = NoAnswer
NotCleaned == [by |-> "none", out |-> <<>>]
NamesIdle ==
    /\ raw = <<>>
    /\ cleaned = NotCleaned

Init == CacheInit /\ AggIdle /\ NamesIdle

\* --------------------------------------------------------- the environment
EnvStep ==
    /\ lastOp' = "env"
    /\ ret' = "None"
    /\ nrebuilds' = 0
    /\ wrote' = "none"
    /\ again' = FALSE
    /\ UNCHANGED <<aggVars, nameVars>>

\* the build timestamps a staleness check can compare against: the one in
\* memory and the one in the cache file
Timestamps ==
    {t \in 0..MaxTime : \/ last_updated = Some(t)
                        \/ (cache_file.kind = "json" /\ cache_file.last_updated = Some(t))}

Tick ==
    /\ now < MaxTime
    /\ now' = now + 1
    /\ EnvStep
    /\ UNCHANGED <<fs, cache_file, opponents_cache, last_updated, scn, hidden>>

\* another program writes source file f
WriteSource(f, c) ==
    /\ fs' = [fs EXCEPT ![f] = [exists |-> TRUE, mtime |-> now, content |-> c]]
    /\ EnvStep
    /\ scn' = IF f \in Declared THEN "none"
              ELSE IF scn = "built" THEN "builtU" ELSE scn
    /\ hidden' = IF f \in Declared /\ \E t \in Timestamps : t >= now THEN TRUE ELSE hidden
    /\ UNCHANGED <<now, cache_file, opponents_cache, last_updated>>

\* touch f: only the modification time changes
TouchSource(f) ==
    /\ fs[f].exists
    /\ fs' = [fs EXCEPT ![f].mtime = now]
    /\ EnvStep
    /\ scn' = IF f \notin Declared
              THEN (IF scn = "built" THEN "builtU" ELSE scn)
              ELSE IF /\ scn \in {"built", "builtU", "served", "servedFail"}
                      /\ last_updated # None
                      /\ now > last_updated[1]
                   THEN "touched"
                   ELSE scn
    /\ hidden' = IF f \in Declared /\ \E t \in Timestamps : t >= now THEN TRUE ELSE hidden
    /\ UNCHANGED <<now, cache_file, opponents_cache, last_updated>>

DeleteSource(f) ==
    /\ fs[f].exists
    /\ fs' = [fs EXCEPT ![f] = NoFile]
    /\ EnvStep
    /\ scn' = IF f \in Declared THEN "none" ELSE scn
    /\ hidden' = IF f \in Declared /\ Timestamps # {} THEN TRUE ELSE hidden
    /\ UNCHANGED <<now, cache_file, opponents_cache, last_updated>>

\* ---------------------------------------------------------------- __init__
\* A new process constructs the manager: empty dict, no timestamp, load_cache.
Construct ==
    LET ld == load_cache(<<>>, None, cache_file)
    IN  /\ opponents_cache' = ld.cache
        /\ last_updated' = ld.last_updated
        /\ lastOp' = "construct"
        /\ ret' = ld.ret
        /\ nrebuilds' = 0
        /\ wrote' = "none"
        /\ again' = FALSE
        /\ scn' = "none"
        /\ UNCHANGED <<now, fs, cache_file, hidden, aggVars, nameVars>>

\* ----------------------------------------- refresh_cache and force_refresh
\* what the file system may do with the write, if one is attempted
Outcomes(files) ==
    IF LoadAllFrom(1, <<>>, files) = <<>> THEN {"ok"} ELSE WriteOutcomes

Rebuild ==
    \E w \in Outcomes(fs) :
    \E r \in {refresh_cache(opponents_cache, last_updated, cache_file, fs, now, w)} :
        /\ opponents_cache' = r.cache
        /\ last_updated' = r.last_updated
        /\ cache_file' = r.file
        /\ lastOp' = "refresh"
        /\ ret' = r.ret
        /\ nrebuilds' = 1
        /\ wrote' = r.wrote
        /\ again' = (lastOp = "refresh" /\ ret = "True" /\ r.ret = "True")
        /\ scn' = IF r.ret = "True" THEN "built" ELSE "none"
        /\ hidden' = IF r.wrote = "ok" THEN FALSE ELSE hidden
        /\ UNCHANGED <<now, fs, aggVars, nameVars>>

\* refresh_cache is public, and force_refresh is `return self.refresh_cache()`:
\* a call of either is this action.
RefreshCache == Rebuild

\* ------------------------------------------------------- the read accessors
\* get_all_opponents, get_opponent, get_opponents_by_rating_range,
\* get_frequent_opponents, get_top_opponents_by_rating, get_statistics and
\* search_opponents all start with
\*     if self.needs_refresh(): self.refresh_cache()
\* and then compute their answer (the ..._result operators above) from
\* self.opponents_cache without changing anything.  ReadAccessor is a call
\* of any of them; ret is what refresh_cache returned ("None" when it was
\* not called).
ReadAccessor ==
    \E stale \in {needs_refresh(last_updated, fs)} :
    \E w \in (IF stale THEN Outcomes(fs) ELSE {"ok"}) :
    \E r \in {IF stale
              THEN refresh_cache(opponents_cache, last_updated, cache_file, fs, now, w)
              ELSE [cache |-> opponents_cache, last_updated |-> last_updated,
                    file |-> cache_file, ret |-> "None", wrote |-> "none"]} :
        /\ opponents_cache' = r.cache
        /\ last_updated' = r.last_updated
        /\ cache_file' = r.file
        /\ lastOp' = "read"
        /\ ret' = r.ret
        /\ nrebuilds' = IF stale THEN 1 ELSE 0
        /\ wrote' = r.wrote
        /\ again' = FALSE
        /\ scn' = IF scn = "touched"
                  THEN (IF r.wrote = "ok" THEN "served" ELSE "servedFail")
                  ELSE IF ~ stale THEN scn
                  ELSE IF r.ret = "True" THEN "built"
                  ELSE IF scn = "servedFail" THEN "servedFail"
                  ELSE "none"
        /\ hidden' = IF r.wrote = "ok" THEN FALSE ELSE hidden
        /\ UNCHANGED <<now, fs, aggVars, nameVars>>

\* ------------------------------------------------------------------- Next
WriteDeclared == \E f \in Declared : \E c \in ContentsFor(f) : WriteSource(f, c)
TouchDeclared == \E f \in Declared : TouchSource(f)
TouchUndeclared == TouchSource(Undeclared)
DeleteDeclared == \E f \in Declared : DeleteSource(f)

Next ==
    \/ Tick
    \/ WriteDeclared
    \/ TouchDeclared
    \/ TouchUndeclared
    \/ DeleteDeclared
    \/ Construct
    \/ RefreshCache
    \/ ReadAccessor

Spec == Init /\ [][Next]_vars

\* ---------------------------------------------- a less orderly environment
\* another program writes a source with a record that breaks the schema
WriteMalformed ==
    \E f \in Declared : \E c \in MalformedContents : WriteSource(f, c)

\* A cache file of another cache variant is found at self.cache_file: a
\* JSON object with `last_updated` and `opponents`, whose second profile
\* has another field set.
KimName == <<"K","i","m"," ","B">>
ForeignEntries ==
    SaveEntries(extract_opponents_from_tournaments(<<>>, <<TournA>>).cache)
        \o <<[key |-> KimName, data |-> [name |-> KimName, total_encounters |-> 1]]>>

ForeignCacheFile ==
    /\ cache_file' = [kind |-> "json", last_updated |-> Some(now), opponents |-> ForeignEntries]
    /\ EnvStep
    /\ UNCHANGED <<now, fs, opponents_cache, last_updated, scn, hidden>>

NextMessy ==
    \/ Tick
    \/ WriteDeclared
    \/ WriteMalformed
    \/ ForeignCacheFile
    \/ Construct
    \/ RefreshCache
    \/ ReadAccessor

SpecMessy == Init /\ [][NextMessy]_vars

\* ---------------------------------------- a run of an aggregator, stepwise
\* The records handed to an aggregator.  They follow the schema; the date
\* and the subject's rating_before may be missing.
MaxRecords == 2
MaxLimit == 4

Enc(name, rating, result, round) ==
    [name |-> name, rating |-> rating, result |-> result, round |-> round]

AggT1 ==
    [name |-> "T1", date |-> Date2, rating_before |-> Some(2300),
     opponents |-> ListOf(<<
        Enc(<<"L","e","e",","," ","A">>, 2200, <<"W">>, 1),
        Enc(<<"P","l","a","y","e","r","s">>, 1500, <<"L">>, 2),
        Enc(<<"K","i","m"," ","B">>, 2450, <<"d">>, 3) >>)]
AggT2 ==
    [name |-> "T2", date |-> Date1, rating_before |-> None,
     opponents |-> ListOf(<<
        Enc(<<" ","L","e","e",","," "," ","A">>, 2101, <<"l">>, 1),
        Enc(<<"L","e","e">>, 1500, <<"X">>, 2) >>)]
AggT3 ==
    [name |-> "T3", date |-> <<>>, rating_before |-> Some(1400),
     opponents |-> ListOf(<< Enc(<<"K","i","m"," ","B">>, 1500, <<"D">>, 1) >>)]
AggT4 == [name |-> "T4", date |-> Date2, rating_before |-> Some(2300), opponents |-> NoKey]

SampleRecords == {AggT1, AggT2, AggT3, AggT4}
Inputs == UNION {[1..n -> SampleRecords] : n \in 0..MaxRecords}

\* for opponent_data in tournament.get('opponents', [])
Encounters(tournament) == OpponentsOf(tournament).items

\* the next encounter at or after encounter opp of record rec; rec is
\* Len(inp) + 1 when both loops are over
RECURSIVE Seek(_, _, _)
Seek(inp, rec, opp) ==
    IF rec > Len(inp) THEN [rec |-> rec, opp |-> 0]
    ELSE IF opp <= Len(Encounters(inp[rec])) THEN [rec |-> rec, opp |-> opp]
    ELSE Seek(inp, rec + 1, 1)

\* the manager's function returns when its loops are over; the
\* comprehensive builder goes on to its second loop
Position(b, inp, rec, opp) ==
    LET at == Seek(inp, rec, opp)
    IN  [phase |-> IF at.rec <= Len(inp) THEN "loop"
                   ELSE IF b = "manager" THEN "done" ELSE "derive",
         rec |-> at.rec, opp |-> at.opp]

InitAgg ==
    /\ CacheInit
    /\ NamesIdle
    /\ builder \in {"manager", "comprehensive"}
    /\ input \in Inputs
    /\ pc = Position(builder, input, 1, 1)
    /\ opponent_profiles = <<>>
    /\ answer = NoAnswer

\* one pass through the body of the inner loop of
\* extract_opponents_from_tournaments
ExtractEncounter ==
    /\ builder = "manager"
    /\ pc.phase = "loop"
    /\ LET t == input[pc.rec]
       IN  opponents_cache' =
               AddEncounter(opponents_cache, t.name, t.date, Encounters(t)[pc.opp])
    /\ pc' = Position(builder, input, pc.rec, pc.opp + 1)
    /\ UNCHANGED <<now, fs, cache_file, last_updated, lastOp, ret, nrebuilds, wrote,
                   again, scn, hidden, builder, input, opponent_profiles, answer, nameVars>>

\* one pass through the body of the inner loop of
\* create_comprehensive_opponent_profiles
ProfileEncounter ==
    /\ builder = "comprehensive"
    /\ pc.phase = "loop"
    /\ LET t == input[pc.rec]
       IN  opponent_profiles' =
               ComprehensiveAddEncounter(opponent_profiles, t.name, t.date,
                                         RatingBefore(t), Encounters(t)[pc.opp])
    /\ pc' = Position(builder, input, pc.rec, pc.opp + 1)
    /\ UNCHANGED <<cacheVars, builder, input, answer, nameVars>>

\* its second loop, over all profiles
DeriveStatistics ==
    /\ builder = "comprehensive"
    /\ pc.phase = "derive"
    /\ opponent_profiles' = DeriveAll(opponent_profiles)
    /\ pc' = [pc EXCEPT !.phase = "done"]
    /\ UNCHANGED <<cacheVars, builder, input, answer, nameVars>>

\* The queries, on the snapshot the manager has built.
SearchTerms ==
    {<<"l","e","e">>, <<"L","e","e",","," ","a">>, <<"K","I","M">>, <<"z">>}
RatingBounds == {0, 1500, 2200, 2450, 3000}
Limits == 0..MaxLimit
Snapshot == builder = "manager" /\ pc.phase = "done"

Answer(op, arg, result) ==
    /\ Snapshot
    /\ answer' = [op |-> op, arg |-> arg, result |-> result]
    /\ UNCHANGED <<cacheVars, builder, input, pc, opponent_profiles, nameVars>>

SearchOpponents ==
    \E term \in SearchTerms :
        Answer("search_opponents", term, search_opponents_result(opponents_cache, term))

GetOpponentsByRatingRange ==
    \E lo \in RatingBounds : \E hi \in RatingBounds :
        Answer("get_opponents_by_rating_range", <<lo, hi>>,
               get_opponents_by_rating_range_result(opponents_cache, lo, hi))

GetTopOpponentsByRating ==
    \E limit \in Limits :
        Answer("get_top_opponents_by_rating", <<limit>>,
               get_top_opponents_by_rating_result(opponents_cache, limit))

GetFrequentOpponents ==
    \E min_games \in 1..MaxRecords :
        Answer("get_frequent_opponents", <<min_games>>,
               get_frequent_opponents_result(opponents_cache, min_games))

GetOpponent ==
    \E name \in SearchTerms \cup {<<"L","e","e">>, <<"K","i","m"," ","B">>} :
        Answer("get_opponent", name, get_opponent_result(opponents_cache, name))

GetAllOpponents ==
    Answer("get_all_opponents", <<>>, get_all_opponents_result(opponents_cache))

GetStatistics ==
    Answer("get_statistics", <<>>, get_statistics_result(opponents_cache, last_updated))

NextAgg ==
    \/ ExtractEncounter
    \/ ProfileEncounter
    \/ DeriveStatistics
    \/ SearchOpponents
    \/ GetOpponentsByRatingRange
    \/ GetTopOpponentsByRating
    \/ GetFrequentOpponents
    \/ GetOpponent
    \/ GetAllOpponents
    \/ GetStatistics

SpecAgg == InitAgg /\ [][NextAgg]_vars

\* ------------------------------------------------ calls of the normalisers
\* The raw names: a body between two paddings.
LongName(n) == [i \in 1..n |-> IF i % 2 = 1 THEN "a" ELSE "b"]
Pads == {<<>>, <<" ">>, <<".">>, <<" ", " ">>}
Bodies ==
    {<<>>, <<"a">>, <<"a","b">>, <<"L","e","e">>, <<"K","i","m"," "," ","B">>,
     <<"1","2","3">>, <<"1"," ","2">>,
     <<"P","l","a","y","e","r","s">>, <<"P","L","A","Y","E","R","S">>,
     <<"m","y"," ","p","l","a","y","e","r","s"," ","x">>,
     Upper(invalid_patterns[1]), Lower(invalid_patterns[6]),
     LongName(MaxNameLen - 4), LongName(MaxNameLen + 1),
     LongName(RegularMaxNameLen - 4), LongName(RegularMaxNameLen + 1)}
RawNames == {pre \o body \o post : pre \in Pads, body \in Bodies, post \in Pads}

InitNames ==
    /\ CacheInit
    /\ AggIdle
    /\ raw \in RawNames
    /\ cleaned = NotCleaned

\* recent_opponent_cache.py calls self.clean_opponent_name(opp.get('name', ''))
\* on the name as it is in the record
CleanManager ==
    /\ cleaned' = [by |-> "manager", out |-> clean_opponent_name(raw)]
    /\ UNCHANGED <<cacheVars, aggVars, raw>>

\* the builders' call site: raw_name = ....strip(); if not raw_name: continue;
\* clean_name = clean_opponent_name(raw_name)
Stripped(name) == Strip(name, Whitespace)

CleanComprehensive ==
    /\ cleaned' = [by |-> "comprehensive",
                   out |-> IF Stripped(raw) = <<>> THEN <<>>
                           ELSE comprehensive_clean_opponent_name(Stripped(raw))]
    /\ UNCHANGED <<cacheVars, aggVars, raw>>

CleanRegular ==
    /\ cleaned' = [by |-> "regular",
                   out |-> IF Stripped(raw) = <<>> THEN <<>>
                           ELSE regular_clean_opponent_name(Stripped(raw))]
    /\ UNCHANGED <<cacheVars, aggVars, raw>>

NextNames ==
    \/ CleanManager
    \/ CleanComprehensive
    \/ CleanRegular

SpecNames == InitNames /\ [][NextNames]_vars

\* ------------------------------- the title-extracting builders, stepwise
\* comprehensive_opponent_cache.py and regular_rating_cache.py: the recent
\* selection, the two loops of the builder, and the lookup tool's stats.
GMLee == <<"G","M"," ","L","e","e">>
IMLee == <<"I","M"," ","L","e","e">>
WGMLee == <<"W","G","M"," ","L","e","e">>

ProfT1 ==
    [name |-> "P1", date |-> Date2, rating_before |-> Some(2300),
     opponents |-> ListOf(<< Enc(GMLee, 2400, <<"W">>, 1), Enc(KimName, 2200, <<"L">>, 2) >>)]
ProfT2 ==
    [name |-> "P2", date |-> Date1, rating_before |-> None,
     opponents |-> ListOf(<< Enc(<<"L","e","e">>, 2101, <<"W">>, 1), Enc(IMLee, 0, <<"D">>, 2) >>)]
ProfT3 ==
    [name |-> "P3", date |-> <<>>, rating_before |-> Some(2000),
     opponents |-> ListOf(<< Enc(WGMLee, 2500, <<"w">>, 1), Enc(KimName, 2100, <<"D">>, 2) >>)]
ProfT4 ==
    [name |-> "P4", date |-> Date2, rating_before |-> Some(2300),
     opponents |-> ListOf(<< Enc(IMLee, 2300, <<"L">>, 1) >>)]

\* names that end with punctuation clean_opponent_name strips
ProfT5 ==
    [name |-> "P5", date |-> Date1, rating_before |-> Some(2000),
     opponents |-> ListOf(<< Enc(<<"G","M"," ",".">>, 2000, <<"W">>, 1),
                             Enc(<<"L","e","e"," ",".">>, 1900, <<"L">>, 2) >>)]

ProfileRecords == {ProfT1, ProfT2, ProfT3, ProfT4, ProfT5}
ProfileInputs == UNION {[1..n -> ProfileRecords] : n \in 0..MaxRecords}

\* (a variant that puts a record before the earlier ones of the same date)
RECURSIVE InsertByDateTiesFirst(_, _)
InsertByDateTiesFirst(sorted, x) ==
    IF sorted = <<>> THEN <<x>>
    ELSE IF ~ StrLess(x.date, Head(sorted).date)
         THEN <<x>> \o sorted
         ELSE <<Head(sorted)>> \o InsertByDateTiesFirst(Tail(sorted), x)

\* sorted(tournaments, key=lambda x: x.get('date', ''), reverse=True): stable,
\* descending; a missing date is the empty string
RECURSIVE InsertByDate(_, _)
InsertByDate(sorted, x) ==
    IF sorted = <<>> THEN <<x>>
    ELSE IF StrLess(Head(sorted).date, x.date)
         THEN <<x>> \o sorted
         ELSE <<Head(sorted)>> \o InsertByDate(Tail(sorted), x)

RECURSIVE SortByDate(_, _)
SortByDate(done, xs) ==
    IF xs = <<>> THEN done ELSE SortByDate(InsertByDate(done, Head(xs)), Tail(xs))

\* sorted_tournaments[:count]
get_recent_tournaments(tournaments, count) == FirstN(SortByDate(<<>>, tournaments), count)

InitProfiles ==
    /\ CacheInit
    /\ NamesIdle
    /\ builder \in {"comprehensive", "regular"}
    /\ input \in ProfileInputs
    /\ pc = Position(builder, input, 1, 1)
    /\ opponent_profiles = <<>>
    /\ answer = NoAnswer

\* recent_tournaments = get_recent_tournaments(all_tournaments, count)
GetRecentTournaments ==
    /\ builder = "comprehensive"
    /\ \E count \in Limits :
        answer' = [op |-> "get_recent_tournaments", arg |-> <<count>>,
                   result |-> get_recent_tournaments(input, count)]
    /\ UNCHANGED <<cacheVars, builder, input, pc, opponent_profiles, nameVars>>

\* one pass through the body of the inner loop of
\* create_regular_rating_profiles
RegularEncounter ==
    /\ builder = "regular"
    /\ pc.phase = "loop"
    /\ LET t == input[pc.rec]
       IN  opponent_profiles' =
               RegularAddEncounter(opponent_profiles, t.name, t.date, Encounters(t)[pc.opp])
    /\ pc' = Position(builder, input, pc.rec, pc.opp + 1)
    /\ UNCHANGED <<cacheVars, builder, input, answer, nameVars>>

\* its second loop, over all profiles
RegularDerive ==
    /\ builder = "regular"
    /\ pc.phase = "derive"
    /\ opponent_profiles' = RegularDeriveAll(opponent_profiles)
    /\ pc' = [pc EXCEPT !.phase = "done"]
    /\ UNCHANGED <<cacheVars, builder, input, answer, nameVars>>

\* The cache the lookup tool may find: none, a document without the
\* `opponents` key, one saved from these profiles, or one whose `opponents`
\* mapping is empty (what save_regular_rating_cache writes for no profiles).
RegularCaches(profiles) ==
    {NoCacheData, CacheDataWithout, CacheDataOf(profiles), CacheDataOf(<<>>)}

\* regular_rating_lookup.py stats
RegularStats ==
    /\ builder = "regular"
    /\ pc.phase = "done"
    /\ \E cache_data \in RegularCaches(opponent_profiles) :
        answer' = [op |-> "regular_stats", arg |-> cache_data,
                   result |-> regular_stats(cache_data)]
    /\ UNCHANGED <<cacheVars, builder, input, pc, opponent_profiles, nameVars>>

NextProfiles ==
    \/ GetRecentTournaments
    \/ ProfileEncounter
    \/ DeriveStatistics
    \/ RegularEncounter
    \/ RegularDerive
    \/ RegularStats

SpecProfiles == InitProfiles /\ [][NextProfiles]_vars

\* =================================================================== claims
\* The aggregation of the declared sources as they are now: the records of
\* the declared sources that exist and hold a list, in declared order,
\* folded into an empty dict.
UsableSources(files) ==
    SelectSeq(source_files, LAMBDA f : files[f].exists /\ json_load(files[f].content).kind = "list")

RECURSIVE RecordsOf(_, _)
RecordsOf(files, fseq) ==
    IF fseq = <<>> THEN <<>>
    ELSE json_load(files[Head(fseq)].content).recs \o RecordsOf(files, Tail(fseq))

Aggregation(files) ==
    Extract(<<>>, RecordsOf(files, UsableSources(files))).cache

\* the last step ran refresh_cache (directly or inside a read accessor)
Rebuilt == lastOp = "refresh" \/ (lastOp = "read" /\ nrebuilds = 1)

\* C1 (as stated): after any writes, touches and deletions of source files,
\* a read accessor answers from a snapshot equal to the aggregation of the
\* declared sources as they are at the call.
C1_ReadsAlwaysFresh ==
    lastOp = "read" => opponents_cache = Aggregation(fs)

\* C1 (amended): a read accessor answers from a snapshot equal to the
\* aggregation of the declared sources as they are at the call, provided
\* that since the last saved rebuild no declared source was deleted and
\* every write or touch of a declared source gave it a modification time
\* later than the build timestamps.
C1_ReadsFreshUnlessHidden ==
    (lastOp = "read" /\ ~ hidden) => opponents_cache = Aggregation(fs)

\* a read that found the second source changed after a build, rebuilt and
\* saved
C1_Witness ==
    /\ lastOp = "read"
    /\ ~ hidden
    /\ ret = "True"
    /\ now > 0
    /\ fs[2].exists /\ fs[2].mtime = now
    /\ Len(opponents_cache) = 2

\* C2: needs_refresh() is true exactly when last_updated is unset or some
\* existing declared source has a modification time greater than
\* last_updated; a step that changes no declared source and not
\* last_updated (such as touching the undeclared file) leaves its result
\* as it was.
C2_NeedsRefreshExact ==
    /\ [](needs_refresh(last_updated, fs) <=>
            (\/ last_updated = None
             \/ \E f \in Declared : fs[f].exists /\ fs[f].mtime > last_updated[1]))
    /\ [][((\A f \in Declared : fs'[f] = fs[f]) /\ last_updated' = last_updated)
            => (needs_refresh(last_updated', fs') <=> needs_refresh(last_updated, fs))]_vars

\* the cache is not stale although the undeclared file is newer than it
\* and a declared source is exactly as old as it
C2_Witness ==
    /\ last_updated # None
    /\ ~ needs_refresh(last_updated, fs)
    /\ fs[Undeclared].mtime > last_updated[1]
    /\ \E f \in Declared : fs[f].exists /\ fs[f].mtime = last_updated[1]

C5_FailedLoadIsEmpty ==
    (lastOp = "construct" /\ ret = "False") =>
        (opponents_cache = <<>> /\ last_updated = None)

\* C6: when the cache-file write fails, the rebuild returns False, the
\* in-memory snapshot is the complete aggregation, and the cache file holds
\* what it held before.
C6_FailedWriteKeepsFile ==
    [][wrote' \in {"denied", "midwrite"} =>
         /\ ret' = "False"
         /\ opponents_cache' = Aggregation(fs')
         /\ cache_file' = cache_file]_vars

\* C7: two refreshes in succession that both persisted, with the sources
\* unchanged between them, leave the same `opponents` in the cache file.
C7_RefreshIdempotent ==
    [][again' => cache_file'.opponents = cache_file.opponents]_vars

\* the second of two successive refreshes, with a non-empty snapshot
C7_Witness ==
    /\ again
    /\ Len(cache_file.opponents) = 2

\* the three statistics of the round-trip claim
StatsOf(cache) ==
    IF get_statistics_result(cache, None) = None THEN None
    ELSE LET st == get_statistics_result(cache, None)[1]
         IN  Some(<<st.total_opponents, st.total_games, st.win_percentage>>)

C9_BadSourcesSkipped ==
    Rebuilt => (ret \in {"True", "False"} /\ opponents_cache = Aggregation(fs))

\* a rebuild with the first source unparseable and the second one usable
C9_Witness ==
    /\ lastOp = "refresh"
    /\ fs[1].exists /\ json_load(fs[1].content) = Unparseable
    /\ fs[2].exists /\ json_load(fs[2].content).kind = "list"
    /\ Len(opponents_cache) = 2

\* C10: a rebuild over records whose `opponents` is missing or not a list
\* completes without raising.
C10_MalformedRecordsTotal ==
    Rebuilt => ret # "raised"


\* ------------------------------------------------- claims on the aggregators
\* The encounters of the argument in ingestion order, each with the name
\* and date of its record, and those already processed at the loop position.
EncountersOfRecord(t) ==
    [i \in 1..Len(Encounters(t)) |->
        [tournament |-> t.name, date |-> t.date, rating_before |-> t.rating_before,
         data |-> Encounters(t)[i]]]

RECURSIVE AllEncounters(_)
AllEncounters(inp) ==
    IF inp = <<>> THEN <<>>
    ELSE EncountersOfRecord(Head(inp)) \o AllEncounters(Tail(inp))

ProcessedCount ==
    Len(AllEncounters(SubSeq(input, 1, pc.rec - 1)))
        + (IF pc.phase = "loop" THEN pc.opp - 1 ELSE 0)

Processed == SubSeq(AllEncounters(input), 1, ProcessedCount)

\* what the raw name of an encounter normalises to (<<>>: rejected)
KeyOf(e) ==
    IF Stripped(e.data.name) = <<>> THEN <<>>
    ELSE IF builder = "manager" THEN CleanedSample[Stripped(e.data.name)]
    ELSE ComprehensiveCleanedSample[Stripped(e.data.name)]

EncountersFor(key) == SelectSeq(Processed, LAMBDA e : KeyOf(e) = key)

Profiles == IF builder = "manager" THEN opponents_cache ELSE opponent_profiles
Running == builder # "none"

TotalOf(info) ==
    IF builder = "manager" THEN info.total_games ELSE info.total_encounters
OutcomesOf(info) ==
    IF builder = "manager"
    THEN info.wins_against + info.losses_against + info.draws_against
    ELSE info.wins_against_kiren + info.losses_against_kiren + info.draws_against_kiren

IsWLD(result) == Upper(result) \in {W, L, D}

\* C11: after every encounter processed by an aggregator, every profile has
\* wins + losses + draws <= total games, with equality exactly when every
\* result recorded for the profile is, upper-cased, one of W, L, D.
C11_OutcomesWithinTotal ==
    Running =>
        \A i \in 1..Len(Profiles) :
            LET info == Profiles[i].info
                es == EncountersFor(Profiles[i].key)
            IN  /\ OutcomesOf(info) <= TotalOf(info)
                /\ (OutcomesOf(info) = TotalOf(info))
                       <=> (\A k \in 1..Len(es) : IsWLD(es[k].data.result))

\* one profile whose two results (W and a lower-case l) are both counted,
\* next to one whose only result X is not
C11_Witness ==
    /\ Running
    /\ \E i \in 1..Len(Profiles) :
           TotalOf(Profiles[i].info) = 2 /\ OutcomesOf(Profiles[i].info) = 2
    /\ \E i \in 1..Len(Profiles) :
           TotalOf(Profiles[i].info) = 1 /\ OutcomesOf(Profiles[i].info) = 0

\* C12: after every encounter processed by the manager's aggregator,
\* total_games is the length of each of ratings_faced, results_against,
\* tournaments_met and rounds_played, and their i-th entries are those of
\* the profile's i-th encounter in ingestion order.
C12_ParallelSequences ==
    builder = "manager" =>
        \A i \in 1..Len(opponents_cache) :
            LET info == opponents_cache[i].info
                es == EncountersFor(opponents_cache[i].key)
            IN  /\ info.total_games = Len(es)
                /\ Len(info.ratings_faced) = info.total_games
                /\ Len(info.results_against) = info.total_games
                /\ Len(info.tournaments_met) = info.total_games
                /\ Len(info.rounds_played) = info.total_games
                /\ \A k \in 1..Len(es) :
                       /\ info.ratings_faced[k] = es[k].data.rating
                       /\ info.results_against[k] = Upper(es[k].data.result)
                       /\ info.tournaments_met[k] = es[k].tournament
                       /\ info.rounds_played[k] = es[k].data.round

\* a profile with encounters from two records, while another profile exists
C12_Witness ==
    /\ builder = "manager"
    /\ Len(opponents_cache) >= 2
    /\ \E i \in 1..Len(opponents_cache) :
           /\ opponents_cache[i].info.total_games = 2
           /\ opponents_cache[i].info.tournaments_met[1]
                  # opponents_cache[i].info.tournaments_met[2]

\* C13: at every point during aggregation, a profile that has received an
\* encounter has avg_rating * len(ratings_faced) = sum(ratings_faced).
C13_RunningMean ==
    Running =>
        \A i \in 1..Len(Profiles) :
            LET info == Profiles[i].info
            IN  info.ratings_faced # <<>> =>
                    info.avg_rating.num * Len(info.ratings_faced)
                        = SumSeq(info.ratings_faced) * info.avg_rating.den

\* C14: for every profile of the manager's aggregator, last_faced is the
\* greatest date among the records that contributed an encounter to it, in
\* whatever order the records are ingested, and it never decreases.
C14_LastFacedIsMax ==
    /\ [](builder = "manager" =>
            \A i \in 1..Len(opponents_cache) :
                LET info == opponents_cache[i].info
                    es == EncountersFor(opponents_cache[i].key)
                IN  /\ \E k \in 1..Len(es) : es[k].date = info.last_faced
                    /\ \A k \in 1..Len(es) : ~ StrLess(info.last_faced, es[k].date))
    /\ [][builder = "manager" =>
            \A i \in 1..Len(opponents_cache) :
                ~ StrLess(opponents_cache'[i].info.last_faced,
                          opponents_cache[i].info.last_faced)]_vars

\* a profile met in a later-dated record first and an earlier-dated one after
C14_Witness ==
    /\ builder = "manager"
    /\ \E i \in 1..Len(opponents_cache) :
           LET es == EncountersFor(opponents_cache[i].key)
           IN  /\ Len(es) = 2
               /\ StrLess(es[2].date, es[1].date)
               /\ opponents_cache[i].info.last_faced = es[1].date

\* the argument without the encounters whose name is rejected
WithoutRejected(inp) ==
    [r \in 1..Len(inp) |->
        [inp[r] EXCEPT !.opponents =
            IF @.kind = "list"
            THEN ListOf(SelectSeq(@.items,
                     LAMBDA o : /\ Stripped(o.name) # <<>>
                                /\ CleanedSample[Stripped(o.name)] # <<>>))
            ELSE @]]

\* C15: an encounter whose name fails normalisation adds to no profile and
\* no counter while the other encounters of its record are processed: the
\* total_games of all profiles add up to the number of processed encounters
\* whose name normalises to a non-empty string, and the finished aggregation
\* is that of the same input without the rejected encounters.
C15_RejectedNamesSkipped ==
    builder = "manager" =>
        /\ SumField(Infos(opponents_cache), "total_games")
               = Len(SelectSeq(Processed, LAMBDA e : KeyOf(e) # <<>>))
        /\ pc.phase = "done" =>
               opponents_cache
                   = extract_opponents_from_tournaments(<<>>, WithoutRejected(input)).cache

\* a finished run over a record with a rejected name between two accepted ones
C15_Witness ==
    /\ builder = "manager"
    /\ pc.phase = "done"
    /\ \E k \in 1..Len(Processed) : KeyOf(Processed[k]) = <<>>
    /\ \E k \in 2..Len(Processed) :
           /\ KeyOf(Processed[k - 1]) = <<>>
           /\ KeyOf(Processed[k]) # <<>>
           /\ Processed[k].tournament = Processed[k - 1].tournament
           /\ DictHas(opponents_cache, KeyOf(Processed[k]))


\* ------------------------------------------------ claims on the normalisers
\* the fixed list and the maximum length of the normaliser that ran
PatternsOf(by) == IF by = "regular" THEN regular_invalid_patterns ELSE invalid_patterns
MaxLenOf(by) ==
    IF by = "manager" THEN MaxNameLen
    ELSE IF by = "comprehensive" THEN ComprehensiveMaxNameLen
    ELSE RegularMaxNameLen

Trimmed(name) == Strip(CollapseWs(name), Whitespace)

MustReject(name, by) ==
    \/ name = <<>>
    \/ \E p \in 1..Len(PatternsOf(by)) : Contains(Lower(name), Lower(PatternsOf(by)[p]))
    \/ Len(Trimmed(name)) < 3
    \/ Len(Trimmed(name)) > MaxLenOf(by)
    \/ ~ \E k \in 1..Len(name) : IsLetter(name[k])

NamesOf(infos) == {infos[i].name : i \in 1..Len(infos)}
Matches(info, term) == Contains(Upper(info.name), Upper(term))
IsExact(info, term) == Upper(info.name) = Upper(term)

\* C17: search_opponents(term) returns exactly the profiles whose name
\* contains term case-insensitively, a profile whose name equals term first
\* and the others by descending avg_rating.
C17_SearchExactFirst ==
    answer.op = "search_opponents" =>
        LET r == answer.result
            term == answer.arg
            all == Infos(opponents_cache)
        IN  /\ \A k \in 1..Len(r) : \E i \in 1..Len(all) : all[i] = r[k]
            /\ \A i \in 1..Len(all) :
                   Matches(all[i], term) <=> \E k \in 1..Len(r) : r[k] = all[i]
            /\ Len(r) = Cardinality({i \in 1..Len(all) : Matches(all[i], term)})
            /\ \A j \in 1..Len(r) : \A k \in (j + 1)..Len(r) :
                   \/ (IsExact(r[j], term) /\ ~ IsExact(r[k], term))
                   \/ /\ IsExact(r[j], term) = IsExact(r[k], term)
                      /\ ~ FracLess(r[j].avg_rating, r[k].avg_rating)

\* C18: get_opponents_by_rating_range(min, max) returns exactly the profiles
\* with min <= avg_rating <= max, in descending avg_rating order.
C18_RangeInclusiveDescending ==
    answer.op = "get_opponents_by_rating_range" =>
        LET r == answer.result
            lo == answer.arg[1]
            hi == answer.arg[2]
            InRange(info) == /\ lo * info.avg_rating.den <= info.avg_rating.num
                             /\ info.avg_rating.num <= hi * info.avg_rating.den
        IN  /\ \A k \in 1..Len(r) : \E i \in 1..Len(opponents_cache) : opponents_cache[i] = r[k]
            /\ \A i \in 1..Len(opponents_cache) :
                   InRange(opponents_cache[i].info)
                       <=> \E k \in 1..Len(r) : r[k] = opponents_cache[i]
            /\ \A j \in 1..Len(r) : \A k \in (j + 1)..Len(r) :
                   ~ FracLess(r[j].info.avg_rating, r[k].info.avg_rating)

\* where an info stands in the snapshot's iteration order
OrderOf(info) == DictIndex(opponents_cache, info.name)

\* C19: get_top_opponents_by_rating(limit), limit >= 0, returns
\* min(limit, number of profiles) profiles in descending avg_rating order,
\* no omitted profile has a higher avg_rating than a returned one, and
\* profiles with equal avg_rating come in the snapshot's insertion order.
C19_TopByRating ==
    answer.op = "get_top_opponents_by_rating" =>
        LET r == answer.result
            limit == answer.arg[1]
            all == Infos(opponents_cache)
            returned == {r[k] : k \in 1..Len(r)}
        IN  /\ Len(r) = (IF limit < Len(all) THEN limit ELSE Len(all))
            /\ Cardinality(returned) = Len(r)
            /\ \A k \in 1..Len(r) : \E i \in 1..Len(all) : all[i] = r[k]
            /\ \A j \in 1..Len(r) : \A k \in (j + 1)..Len(r) :
                   /\ ~ FracLess(r[j].avg_rating, r[k].avg_rating)
                   /\ r[j].avg_rating = r[k].avg_rating => OrderOf(r[j]) < OrderOf(r[k])
            /\ \A i \in 1..Len(all) : all[i] \notin returned =>
                   \A k \in 1..Len(r) :
                       /\ ~ FracLess(r[k].avg_rating, all[i].avg_rating)
                       /\ r[k].avg_rating = all[i].avg_rating => OrderOf(r[k]) < i

\* a truncated answer whose last profile ties with an omitted, later-inserted one
C19_Witness ==
    /\ answer.op = "get_top_opponents_by_rating"
    /\ Len(answer.result) = 2
    /\ \E i \in 1..Len(opponents_cache) :
           /\ opponents_cache[i].info.avg_rating = answer.result[2].avg_rating
           /\ opponents_cache[i].info # answer.result[2]

\* the band of the rating distribution an average falls in
BandOf(avg) ==
    IF avg.num >= 2400 * avg.den THEN "b2400"
    ELSE IF avg.num >= 2200 * avg.den THEN "b2200"
    ELSE IF avg.num >= 2000 * avg.den THEN "b2000"
    ELSE IF avg.num >= 1800 * avg.den THEN "b1800"
    ELSE "below1800"
Bands == {"b2400", "b2200", "b2000", "b1800", "below1800"}

RECURSIVE SumOver(_, _)
SumOver(f, dom) ==
    IF dom = {} THEN 0
    ELSE LET x == CHOOSE x \in dom : TRUE IN f[x] + SumOver(f, dom \ {x})

RECURSIVE ProductOver(_, _)
ProductOver(f, dom) ==
    IF dom = {} THEN 1
    ELSE LET x == CHOOSE x \in dom : TRUE IN f[x] * ProductOver(f, dom \ {x})

\* C20: over a non-empty snapshot get_statistics reports the number of
\* profiles, the sum of their total_games, total wins / total games * 100,
\* the unweighted mean of the profiles' avg_rating, and a rating
\* distribution that puts each profile in exactly one band.
C20_Statistics ==
    (answer.op = "get_statistics" /\ opponents_cache # <<>>) =>
        /\ answer.result # None
        /\ LET st == answer.result[1]
               all == Infos(opponents_cache)
               n == Len(all)
               games == SumOver([i \in 1..n |-> all[i].total_games], 1..n)
               wins == SumOver([i \in 1..n |-> all[i].wins_against], 1..n)
               \* the averages over a common denominator
               den == ProductOver([i \in 1..n |-> all[i].avg_rating.den], 1..n)
               sum == SumOver([i \in 1..n |->
                          all[i].avg_rating.num * (den \div all[i].avg_rating.den)], 1..n)
           IN  /\ st.total_opponents = n
               /\ st.total_games = games
               /\ st.win_percentage.num * games = wins * 100 * st.win_percentage.den
               /\ st.avg_opponent_rating.num * den * n = sum * st.avg_opponent_rating.den
               /\ \A b \in Bands :
                      st.rating_distribution[b]
                          = Cardinality({i \in 1..n : BandOf(all[i].avg_rating) = b})
               /\ SumOver(st.rating_distribution, Bands) = n

\* statistics of three profiles, one of them with two games, so that the
\* mean over opponents is not the mean over games
C20_Witness ==
    /\ answer.op = "get_statistics"
    /\ Len(opponents_cache) = 3
    /\ \E i \in 1..3 : opponents_cache[i].info.total_games = 2
    /\ answer.result[1].total_games = 4
    /\ LET all == Infos(opponents_cache)
           ratings == all[1].ratings_faced \o all[2].ratings_faced \o all[3].ratings_faced
       IN  answer.result[1].avg_opponent_rating # Frac(SumSeq(ratings), Len(ratings))

\* ------------------------------------------------------------------ C21
\* C21: no statistics operation faults on empty or zero data: when the
\* lookup tool's stats command has run over a cache, whatever its
\* `opponents` mapping holds (nothing included), it has printed its figures
\* or returned early, and has not raised; with no games the win rate is 0.
C21_StatsNeverFault ==
    answer.op = "regular_stats" =>
        /\ answer.result.raised = "no"
        /\ (answer.result.out = "stats" /\ answer.result.total_games = 0
                => answer.result.win_rate = FracOfInt(0))

\* ------------------------------- claims on the title-extracting builders
\* What a title-extracting builder makes of an encounter: whether it takes
\* it, and the canonical name and the title it reads from the raw name.
ParsedName(b, name, rating) ==
    LET raw_name == Stripped(name)
        clean_name == IF b = "regular" THEN regular_clean_opponent_name(raw_name)
                      ELSE comprehensive_clean_opponent_name(raw_name)
        ex == IF b = "regular" THEN regular_extract_title_from_name(clean_name)
              ELSE extract_title_from_name(clean_name)
    IN  IF raw_name = <<>> \/ clean_name = <<>> \/ (b = "regular" /\ rating = 0)
        THEN [taken |-> FALSE, name |-> <<>>, title |-> None]
        ELSE [taken |-> TRUE, name |-> ex.name, title |-> ex.title]

\* (the same for the opponents of the sample records, evaluated once)
SampleOpponents ==
    UNION {{t.opponents.items[i] : i \in 1..Len(t.opponents.items)} : t \in ProfileRecords}
ParsedSample ==
    [b \in {"comprehensive", "regular"} |->
        [o \in SampleOpponents |-> ParsedName(b, o.name, o.rating)]]

ParsedBy(b, e) ==
    IF b \in DOMAIN ParsedSample /\ e.data \in SampleOpponents
    THEN ParsedSample[b][e.data]
    ELSE ParsedName(b, e.data.name, e.data.rating)

\* the processed encounters that went into the profile stored under key
TakenFor(key) ==
    SelectSeq(Processed, LAMBDA e : ParsedBy(builder, e).taken /\ ParsedBy(builder, e).name = key)

Built(b) == builder = b /\ pc.phase = "done"

\* ------------------------------------------------------------------ C22
\* C22: when the comprehensive builder is done, each profile's
\* upset_victories is the number of its encounters with result W, a known
\* rating_before in the record and an opponent rating above it, and its
\* expected_losses the number with result L, a known rating_before and an
\* opponent rating below it; encounters of a record without rating_before
\* count in neither.
C22_UpsetsNeedKnownRating ==
    Built("comprehensive") =>
        \A i \in 1..Len(opponent_profiles) :
            LET info == opponent_profiles[i].info
                es == TakenFor(opponent_profiles[i].key)
                known(j) == es[j].rating_before # None
            IN  /\ info.upset_victories = Cardinality({j \in 1..Len(es) :
                        /\ Upper(es[j].data.result) = W
                        /\ known(j)
                        /\ es[j].data.rating > es[j].rating_before[1]})
                /\ info.expected_losses = Cardinality({j \in 1..Len(es) :
                        /\ Upper(es[j].data.result) = L
                        /\ known(j)
                        /\ es[j].data.rating < es[j].rating_before[1]})

\* ------------------------------------------------------------------ C23
\* the titles read from the encounters of a profile, in ingestion order
TitlesFor(key) ==
    LET es == TakenFor(key)
        with == SelectSeq(es, LAMBDA e : ParsedBy(builder, e).title # None)
    IN  [j \in 1..Len(with) |-> ParsedBy(builder, with[j]).title[1]]

\* the earliest of the longest titles of a non-empty sequence
FirstLongest(ts) ==
    ts[CHOOSE j \in 1..Len(ts) :
            /\ \A k \in 1..Len(ts) : Len(ts[k]) <= Len(ts[j])
            /\ \A k \in 1..(j - 1) : Len(ts[k]) < Len(ts[j])]

TitleLen(title) == IF title = None THEN 0 ELSE Len(title[1])

\* C23: in the title-extracting builders, after every encounter, a
\* profile's title is null if none of its encounters yielded a title and
\* otherwise the earliest-seen of the longest titles yielded; and from one
\* step to the next the stored title never gets shorter or reverts to null.
C23_LongestTitleKept ==
    /\ [](builder \in {"comprehensive", "regular"} =>
            \A i \in 1..Len(opponent_profiles) :
                LET ts == TitlesFor(opponent_profiles[i].key)
                IN  opponent_profiles[i].info.title =
                        (IF ts = <<>> THEN None ELSE Some(FirstLongest(ts))))
    /\ [][\A i \in 1..Len(opponent_profiles) :
            /\ i <= Len(opponent_profiles')
            /\ opponent_profiles'[i].key = opponent_profiles[i].key
            /\ TitleLen(opponent_profiles'[i].info.title)
                   >= TitleLen(opponent_profiles[i].info.title)]_vars

\* a profile whose encounters yielded two different titles of the greatest
\* length, and one that was first stored without a title and has one now
C23_Witness ==
    /\ builder \in {"comprehensive", "regular"}
    /\ \E i \in 1..Len(opponent_profiles) :
        LET ts == TitlesFor(opponent_profiles[i].key)
        IN  /\ Len(ts) >= 2
            /\ ts[1] # ts[2]
            /\ Len(ts[1]) = Len(ts[2])
            /\ opponent_profiles[i].info.title = Some(ts[1])

\* ------------------------------------------------------------------ C24
\* the cache is fresh: it has a build timestamp and no declared source that
\* exists was modified after it
Fresh ==
    /\ last_updated # None
    /\ \A f \in Declared : ~ (fs[f].exists /\ fs[f].mtime > last_updated[1])

\* C24: a query operation called while the cache is fresh leaves the
\* in-memory snapshot, last_updated and the cache file as they were (and
\* rebuilds nothing), so the same query asked again has the same answer.
C24_FreshReadsChangeNothing ==
    [][(Fresh /\ lastOp' = "read") =>
         /\ opponents_cache' = opponents_cache
         /\ last_updated' = last_updated
         /\ cache_file' = cache_file
         /\ nrebuilds' = 0
         /\ get_statistics_result(opponents_cache', last_updated')
                = get_statistics_result(opponents_cache, last_updated)]_vars

\* a query answered from a fresh, non-empty snapshot at a later time than
\* its build
C24_Witness ==
    /\ lastOp = "read"
    /\ nrebuilds = 0
    /\ Fresh
    /\ now > last_updated[1]
    /\ Len(opponents_cache) = 2
    /\ cache_file.kind = "json"

\* ------------------------------------------------------------------ C25
\* C25: after every rebuild, whatever it returned, the in-memory snapshot
\* is the complete snapshot from before the rebuild or the complete
\* aggregation of the records the rebuild found, never an emptied or
\* partly built one.
C25_SnapshotReplacedWholesale ==
    [][nrebuilds' = 1 =>
         \/ opponents_cache' = opponents_cache
         \/ /\ LoadAllFrom(1, <<>>, fs) # <<>>
            /\ ~ Extract(<<>>, LoadAllFrom(1, <<>>, fs)).raised
            /\ opponents_cache' = Aggregation(fs)]_vars

\* ================================================== RecentOpponentCache
\* A RecentOpponentCache is an OpponentCacheManager constructed with
\* max_tournaments; it inherits load_cache, save_cache, needs_refresh,
\* refresh_cache, force_refresh and the read accessors unchanged.
MaxTournaments == 1

\* self.get_recent_tournaments(all_tournaments)
recent_tournaments_of(all_tournaments) ==
    get_recent_tournaments(all_tournaments, MaxTournaments)

\* refresh_recent_cache: same result record as refresh_cache
refresh_recent_cache(cache, lu, file, files, t, w) ==
    LET all_tournaments == LoadAllFrom(1, <<>>, files)
        recent_tournaments == recent_tournaments_of(all_tournaments)
        ex == Extract(Cleared(cache), recent_tournaments)
        sv == save_cache(ex.cache, lu, file, t, w)
    IN  IF all_tournaments = <<>> \/ recent_tournaments = <<>>
        THEN [cache |-> Cleared(cache), last_updated |-> lu, file |-> file,
              ret |-> "False", wrote |-> "none"]
        ELSE IF ex.raised
        THEN [cache |-> ex.cache, last_updated |-> lu, file |-> file,
              ret |-> "raised", wrote |-> "none"]
        ELSE [cache |-> ex.cache, last_updated |-> sv.last_updated, file |-> sv.file,
              ret |-> sv.ret, wrote |-> w]

\* a call of refresh_recent_cache
RefreshRecentCache ==
    \E w \in Outcomes(fs) :
    \E r \in {refresh_recent_cache(opponents_cache, last_updated, cache_file, fs, now, w)} :
        /\ opponents_cache' = r.cache
        /\ last_updated' = r.last_updated
        /\ cache_file' = r.file
        /\ lastOp' = "refresh_recent"
        /\ ret' = r.ret
        /\ nrebuilds' = 1
        /\ wrote' = r.wrote
        /\ again' = FALSE
        /\ scn' = IF r.ret = "True" THEN "built" ELSE "none"
        /\ hidden' = IF r.wrote = "ok" THEN FALSE ELSE hidden
        /\ UNCHANGED <<now, fs, aggVars, nameVars>>

\* a call of the inherited force_refresh: `return self.refresh_cache()`
ForceRefresh == Rebuild

\* a call of get_recent_statistics:
\*     if self.needs_refresh(): self.refresh_recent_cache()
\*     stats = self.get_statistics()
\* where get_statistics starts with
\*     if self.needs_refresh(): self.refresh_cache()
\* w1 and w2 are what the file system does with the two writes.
GetRecentStatistics ==
    \E w1 \in Outcomes(fs), w2 \in Outcomes(fs) :
    \E stale1 \in {needs_refresh(last_updated, fs)} :
    \E r1 \in {IF stale1
               THEN refresh_recent_cache(opponents_cache, last_updated, cache_file, fs, now, w1)
               ELSE [cache |-> opponents_cache, last_updated |-> last_updated,
                     file |-> cache_file, ret |-> "None", wrote |-> "none"]} :
    \E stale2 \in {r1.ret # "raised" /\ needs_refresh(r1.last_updated, fs)} :
    \E r2 \in {IF stale2
               THEN refresh_cache(r1.cache, r1.last_updated, r1.file, fs, now, w2)
               ELSE r1} :
        /\ (~ stale1 => w1 = "ok")
        /\ (~ stale2 => w2 = "ok")
        /\ opponents_cache' = r2.cache
        /\ last_updated' = r2.last_updated
        /\ cache_file' = r2.file
        /\ lastOp' = "recent_statistics"
        /\ ret' = r2.ret
        /\ nrebuilds' = (IF stale1 THEN 1 ELSE 0) + (IF stale2 THEN 1 ELSE 0)
        /\ wrote' = IF stale2 THEN r2.wrote ELSE r1.wrote
        /\ again' = FALSE
        /\ scn' = IF r2.ret = "True" THEN "built" ELSE "none"
        /\ hidden' = IF r1.wrote = "ok" \/ r2.wrote = "ok" THEN FALSE ELSE hidden
        /\ UNCHANGED <<now, fs, aggVars, nameVars>>

NextRecent ==
    \/ Tick
    \/ WriteDeclared
    \/ DeleteDeclared
    \/ Construct
    \/ RefreshRecentCache
    \/ ForceRefresh
    \/ GetRecentStatistics
    \/ ReadAccessor

SpecRecent == Init /\ [][NextRecent]_vars

\* ------------------------------------------------------------------ C26
\* the names of the tournaments of the sources that are among the
\* max_tournaments most recent by date (a tournament as recent as the last
\* one selected counts as well)
RecentNames(files) ==
    LET all_tournaments == LoadAllFrom(1, <<>>, files)
        recent == recent_tournaments_of(all_tournaments)
    IN  {all_tournaments[i].name : i \in
            {k \in 1..Len(all_tournaments) :
                /\ recent # <<>>
                /\ ~ StrLess(all_tournaments[k].date, recent[Len(recent)].date)}}

\* every encounter of every profile is from one of those tournaments
OnlyRecent(infos, files) ==
    \A i \in 1..Len(infos) :
        \A j \in 1..Len(infos[i].tournaments_met) :
            infos[i].tournaments_met[j] \in RecentNames(files)

\* C26: whenever an operation of a RecentOpponentCache rebuilds the
\* snapshot, the in-memory snapshot afterwards, and the cache file if it
\* was written, hold only encounters from the max_tournaments most recent
\* tournaments by date of the sources.
C26_OnlyRecentTournaments ==
    [][nrebuilds' >= 1 =>
         /\ OnlyRecent(Infos(opponents_cache'), fs)
         /\ (wrote' = "ok" =>
                OnlyRecent([i \in 1..Len(cache_file'.opponents) |->
                               cache_file'.opponents[i].data], fs))]_vars

\* ------------------------------------------------------------------ C27
\* C27: in every snapshot of a builder, each profile's key equals its name
\* field, is not empty, has at least MinNameLen characters, and neither
\* begins nor ends with whitespace.
C27_CanonicalKeys ==
    \A i \in 1..Len(opponent_profiles) :
        LET key == opponent_profiles[i].key
        IN  /\ key = opponent_profiles[i].info.name
            /\ key # <<>>
            /\ Len(key) >= MinNameLen
            /\ Strip(key, Whitespace) = key

\* ------------------------------------------------------------------ C28
\* C28: whenever last_updated is set and needs_refresh() is false, the
\* cache file holds an `opponents` mapping and it equals the in-memory
\* mapping.
C28_MemoryDiskAgree ==
    (last_updated # None /\ ~ needs_refresh(last_updated, fs)) =>
        /\ cache_file.kind = "json"
        /\ cache_file.opponents = SaveEntries(opponents_cache)

\* ------------------------------------------------------------------ C29
\* the dates, first and last bound of a profile of either builder
TimelineOf(info) ==
    IF builder = "regular"
    THEN [dates |-> info.regular_dates, first |-> info.first_regular_game,
          last |-> info.last_regular_game]
    ELSE [dates |-> info.dates_faced, first |-> info.first_encounter,
          last |-> info.last_encounter]

NonEmptyDates(dates) == {dates[i] : i \in {k \in 1..Len(dates) : dates[k] # <<>>}}

\* C29: for every profile of a builder that has a recorded non-empty date,
\* first_encounter is the smallest non-empty recorded date, last_encounter
\* the largest, and first_encounter <= last_encounter.
C29_TimelineBounds ==
    builder \in {"comprehensive", "regular"} =>
        \A i \in 1..Len(opponent_profiles) :
            LET tl == TimelineOf(opponent_profiles[i].info)
                ds == NonEmptyDates(tl.dates)
            IN  ds # {} =>
                    /\ tl.first \in ds
                    /\ \A d \in ds : ~ StrLess(d, tl.first)
                    /\ tl.last \in ds
                    /\ \A d \in ds : ~ StrLess(tl.last, d)
                    /\ ~ StrLess(tl.last, tl.first)

\* ------------------------------------------------------------------ C30
\* how many records of xs go before record k: those with a greater date and
\* the earlier ones with the same date
RankIn(xs, k) ==
    Cardinality({m \in 1..Len(xs) :
                    \/ StrLess(xs[k].date, xs[m].date)
                    \/ (xs[m].date = xs[k].date /\ m < k)})

\* C30: the recent selection with limit N returns min(N, number of input
\* records) records, by date descending, the records of equal date in
\* their input order and the records without a date last; every record
\* left out has at least N records that go before it.
C30_RecentSelection ==
    answer.op = "get_recent_tournaments" =>
        LET n == answer.arg[1]
            selected == answer.result
        IN  /\ Len(selected) = IF n < Len(input) THEN n ELSE Len(input)
            /\ \A i \in 1..Len(selected) : \A j \in (i + 1)..Len(selected) :
                    ~ StrLess(selected[i].date, selected[j].date)
            /\ \A k \in 1..Len(input) :
                    IF RankIn(input, k) < n
                    THEN selected[RankIn(input, k) + 1] = input[k]
                    ELSE \A i \in 1..Len(selected) :
                            ~ StrLess(selected[i].date, input[k].date)

\* two different records of the same date, both selected
C30_Witness ==
    /\ answer.op = "get_recent_tournaments"
    /\ Len(input) = 2
    /\ input[1] # input[2]
    /\ input[1].date = input[2].date
    /\ answer.arg[1] = 2
    /\ answer.result = input

====
